---- MODULE Spec2Model ----
(***************************************************************************)
(* The size-constrained transcoding loop of webapp-file-converter:         *)
(* convert_gif_to_webm (src/server/gif_to_webm.py) with its callers: the   *)
(* /api/convert handler of src/server.py, the handlers /convert/gif-to-webm,*)
(* /api/convert and /api/convert-bulk of src/artifacts/server.py, and the  *)
(* command line (main).                                                    *)
(* The external prober and encoder (ffprobe, ffmpeg) are the environment:  *)
(* what a file holds decides what the prober reports, and each encoder run *)
(* ends with one of the outcomes of EncodeOutcomes, or does not end.       *)
(***************************************************************************)
EXTENDS Integers, Sequences, FiniteSets, TLC

VARIABLES
    caller,          \* the handler serving the request: "http", "preview",
                     \* "convert", "bulk"; or "cli" (main)
    pc,              \* position of the single worker thread
    fs,              \* the files that exist: path -> [size, by, media]
    request,         \* what convert_gif keeps of the request it accepted
    response,        \* what the caller finally reports
    args,            \* arguments of the running convert_gif_to_webm call
    i,               \* index into crf_values of the next level to try
    video_filter,    \* the filters joined into -vf
    duration_limit,  \* the value passed as -t
    result,          \* return value of convert_gif_to_webm: "none", "True", "False"
    msg,             \* the last line the call printed before returning
    attempts,        \* history: each encoder run of this call: its -crf and -t,
                     \* and what it really did
    encoder,         \* the encoder of this run: level -> outcomes it may produce
    runs,            \* completed command-line runs, and how many are planned
    prev,            \* history: the outcome of the previous command-line run
    form,            \* the request as the client sent it, and whether handling
                     \* it ran check_ffmpeg
    bulk,            \* the locals of convert_bulk: files, position, counters
    timers,          \* the paths a started threading.Timer will remove
    other,           \* position of a second request, served by another thread
    download,        \* the download requests so far: their count, and the
                     \* position and answer of the latest
    edit             \* the locals of a trim or icon handler: its paths, options
                     \* and whether its encoder runs succeeded

vars == <<caller, pc, fs, request, response, args, i, video_filter,
          duration_limit, result, msg, attempts, encoder, runs, prev,
          form, bulk, timers, other, download, edit>>

-----------------------------------------------------------------------------
(* Bounds of the model *)

\* Encoder outputs are within Slack bytes of the size ceiling, on either side.
Slack == 1

\* Probed widths and heights range over 0..MaxDim in the planner specification.
MaxDim == 5

\* How many times the same command line is run in the rerun specification.
MaxRuns == 2

\* The most files one request to /api/convert-bulk carries.
MaxFiles == 2

-----------------------------------------------------------------------------
(* Program constants *)

crf_values == <<35, 40, 45, 50, 55, 60, 63>>

MAX_FILE_SIZE == 100 * 1024 * 1024

MIN_MAX_SIZE_KB == 64

MAX_MAX_SIZE_KB == 2048

DEFAULT_MAX_SIZE_KB == 256

STICKER_SECONDS == 3

FPS_CAP == 30

STICKER_SIDE == 512

EMOJI_SIDE == 100

PREVIEW_MAX_SIZE_KB == 2048

-----------------------------------------------------------------------------
(* Files *)

NoFiles == [p \in {} |-> 0]

exists(f, p) == p \in DOMAIN f

getsize(f, p) == f[p].size

\* A file opened for writing (file.save, ffmpeg -y): what was at p is replaced.
write_file(f, p, file) ==
    [q \in DOMAIN f \cup {p} |-> IF q = p THEN file ELSE f[q]]

\* os.remove(p) of an existing file.
remove(f, p) == [q \in DOMAIN f \ {p} |-> f[q]]

\* What a source file holds, as the prober sees it.
Unreadable == [kind |-> "unreadable", width |-> 0, height |-> 0,
               duration |-> 0, fps_num |-> 0, fps_den |-> 1]

NoVideo == [kind |-> "novideo", width |-> 0, height |-> 0,
            duration |-> 0, fps_num |-> 0, fps_den |-> 1]

Video(w, h, d, n, m) == [kind |-> "video", width |-> w, height |-> h,
                         duration |-> d, fps_num |-> n, fps_den |-> m]

Webm == [kind |-> "webm", width |-> 0, height |-> 0,
         duration |-> 0, fps_num |-> 0, fps_den |-> 1]

\* by = 0 marks a file no encoder run wrote (an upload, a file of the user);
\* stale marks a file created more than an hour ago.
SourceFile(size, media) ==
    [size |-> size, by |-> 0, media |-> media, stale |-> FALSE]

Artifact(size, crf) ==
    [size |-> size, by |-> crf, media |-> Webm, stale |-> FALSE]

Artifacts(f) == {p \in DOMAIN f : f[p].by # 0}

\* Remove temp files older than 1 hour.
cleanup_old_files(f) == [q \in {p \in DOMAIN f : ~f[p].stale} |-> f[q]]

\* get_video_info: ffprobe's JSON; None (here a record of kind "unreadable")
\* when ffprobe exits non-zero or prints no JSON.  subprocess.run is given no
\* timeout: that the call may never return is a choice of the actions that
\* make it.
get_video_info(f, p) == IF exists(f, p) THEN f[p].media ELSE Unreadable

IsNone(info) == info.kind = "unreadable"

\* The first stream of type video, if there is one.
HasVideoStream(info) == info.kind \in {"video", "webm"}

-----------------------------------------------------------------------------
(* The filter planner *)

EmojiFilter ==
    "scale=100:100:force_original_aspect_ratio=decrease,pad=100:100:(ow-iw)/2:(oh-ih)/2:black@0"

ZeroDivisionError == "ZeroDivisionError"

\* Faulty variant: emoji mode is given the sticker filter.
calculate_scale_filter_no_emoji(width, height, mode) ==
    IF height = 0 THEN ZeroDivisionError
    ELSE IF width >= height THEN "scale=512:-2"
    ELSE "scale=-2:512"

\* Faulty variant: the comparison of the two sides is turned around.
calculate_scale_filter_swapped(width, height, mode) ==
    IF mode = "emoji" THEN EmojiFilter
    ELSE IF height = 0 THEN ZeroDivisionError
    ELSE IF width <= height THEN "scale=512:-2"
    ELSE "scale=-2:512"

\* The scale filter, or the exception that width / height raises.
calculate_scale_filter(width, height, mode) ==
    IF mode = "emoji" THEN EmojiFilter
    ELSE IF height = 0 THEN ZeroDivisionError
    ELSE IF width >= height THEN "scale=512:-2"
    ELSE "scale=-2:512"

\* a * b / c rounded to the nearest integer, halves away from zero (a, b >= 0, c > 0).
Rescale(a, b, c) == (2 * a * b + c) \div (2 * c)

\* The frame size the encoder gives a w x h source under a scale filter: a
\* side given as -2 keeps the aspect ratio and is rounded to a multiple of 2;
\* the emoji filter pads the fitted image to the full canvas.
ScaledSize(filter, w, h) ==
    IF filter = "scale=512:-2"
    THEN [width |-> STICKER_SIDE, height |-> Rescale(STICKER_SIDE, h, w * 2) * 2]
    ELSE IF filter = "scale=-2:512"
    THEN [width |-> Rescale(STICKER_SIDE, w, h * 2) * 2, height |-> STICKER_SIDE]
    ELSE [width |-> EMOJI_SIDE, height |-> EMOJI_SIDE]

\* What the encoder does with the emoji filter on a w x h source (w, h > 0):
\* scale=100:100:force_original_aspect_ratio=decrease fits the image inside
\* 100x100 keeping its aspect ratio, pad=100:100:(ow-iw)/2:(oh-ih)/2 puts the
\* fitted image at offset (x, y) of a 100x100 canvas.
EmojiFit(filter, w, h) ==
    LET scaled == ScaledSize(filter, w, h)
        iw == IF filter # EmojiFilter THEN scaled.width
              ELSE IF w >= h THEN EMOJI_SIDE ELSE Rescale(EMOJI_SIDE, w, h)
        ih == IF filter # EmojiFilter THEN scaled.height
              ELSE IF w >= h THEN Rescale(EMOJI_SIDE, h, w) ELSE EMOJI_SIDE
    IN  [iw |-> iw, ih |-> ih,
         x |-> (scaled.width - iw) \div 2, y |-> (scaled.height - ih) \div 2,
         ow |-> scaled.width, oh |-> scaled.height]

\* Faulty variant: preview mode is cut to 3 seconds too.
DurationLimitAlways(duration, mode) ==
    IF duration < STICKER_SECONDS THEN duration ELSE STICKER_SECONDS

\* Limit duration to 3 seconds (except for preview mode).
DurationLimit(duration, mode) ==
    IF mode = "preview" THEN duration
    ELSE IF duration < STICKER_SECONDS THEN duration ELSE STICKER_SECONDS

\* Faulty variant: a source at exactly 30 Hz is rate-limited too.
NeedsFpsFilterInclusive(info) == info.fps_num >= FPS_CAP * info.fps_den

\* Limit FPS to 30: eval(r_frame_rate) > 30, for a rate num/den with den > 0.
NeedsFpsFilter(info) == info.fps_num > FPS_CAP * info.fps_den

Filters(scale_filter, info) ==
    IF NeedsFpsFilter(info) THEN <<scale_filter, "fps=30">> ELSE <<scale_filter>>

-----------------------------------------------------------------------------
(* The encoder, as convert_gif_to_webm sees one run of it *)

Levels == {crf_values[k] : k \in 1..Len(crf_values)}

\* One run of ffmpeg -y ... output_path:
\*   rc      "zero", "nonzero" (the process exits), "raise" (subprocess.run
\*           raises), "hang" (the process never exits);
\*   effect  what the run does to the output path: "write" (a file of
\*           ceiling + delta bytes is there afterwards), "absent" (no file is
\*           there afterwards), "keep" (the path is not touched);
\*   delta   the size written, relative to the size ceiling of the call.
Outcome(rc, effect, delta) == [rc |-> rc, effect |-> effect, delta |-> delta]

Deltas == (0 - Slack)..Slack

\* An exit status of zero means the output was opened and written; the code
\* also provides for no file being there.  A failed run leaves the path alone
\* or leaves a partial file.
EncodeOutcomes ==
    {Outcome("zero", "write", d) : d \in Deltas}
    \cup {Outcome("zero", "absent", 0)}
    \cup {Outcome("nonzero", "keep", 0)}
    \cup {Outcome("nonzero", "write", d) : d \in Deltas}
    \cup {Outcome("raise", "keep", 0), Outcome("hang", "keep", 0)}

\* The outcomes of the deterministic stub encoders of the rerun specification:
\* an artifact of exactly the ceiling, an artifact Slack bytes over it, a
\* failed run that leaves the path alone, a failed run that leaves a partial
\* file small enough to pass for a result.
StubOutcomes ==
    {Outcome("zero", "write", 0), Outcome("zero", "write", Slack),
     Outcome("nonzero", "keep", 0), Outcome("nonzero", "write", 0)}

\* An encoder free to end each run in any way.
FreeEncoder == [deterministic |-> FALSE, table |-> [c \in Levels |-> EncodeOutcomes]]

\* A deterministic encoder: what it does at a level is fixed by the first run
\* at that level.
StubEncoder == [deterministic |-> TRUE, table |-> [c \in Levels |-> StubOutcomes]]

Observed(enc, crf, o) ==
    IF enc.deterministic THEN [enc EXCEPT !.table[crf] = {o}] ELSE enc

\* The files after a run with outcome o on `target`, for a ceiling of `bytes`.
RunEncoder(f, target, o, crf, bytes) ==
    IF o.effect = "write" THEN write_file(f, target, Artifact(bytes + o.delta, crf))
    ELSE IF o.effect = "absent" THEN remove(f, target)
    ELSE f

\* History: what the run was, by the artifact it produced.
Classify(o) ==
    IF o.rc = "zero" /\ o.effect = "write"
    THEN (IF o.delta <= 0 THEN "fit" ELSE "big")
    ELSE "fail"

-----------------------------------------------------------------------------
(* convert_gif_to_webm *)

NonePath == <<"", "None">>

\* Path(input_path).with_name(stem + suffix + ".webm"), for the names used here.
DefaultOutputPath(input_path, mode) ==
    <<input_path[1],
      IF input_path[2] = "anim.gif"
      THEN (IF mode = "emoji" THEN "anim_emoji.webm" ELSE "anim_sticker.webm")
      ELSE (IF mode = "emoji" THEN "_emoji.webm" ELSE "_sticker.webm")>>

max_size_bytes(max_size_kb) == max_size_kb * 1024

\* Faulty variant: the ceiling itself is rejected.
FitsCeilingStrict(file_size, bytes) == file_size < bytes

\* file_size <= max_size_bytes
FitsCeiling(file_size, bytes) == file_size <= bytes

\* Faulty variant: each level writes a file of its own.
OutputTargetPerLevel(a, crf) ==
    <<a.output_path[1],
      CASE crf = 35 -> "output_35.webm" [] crf = 40 -> "output_40.webm"
        [] crf = 45 -> "output_45.webm" [] crf = 50 -> "output_50.webm"
        [] crf = 55 -> "output_55.webm" [] crf = 60 -> "output_60.webm"
        [] OTHER -> "output_63.webm">>

\* The path every level's command line ends with, and the size check reads.
OutputTarget(a, crf) == a.output_path

\* Faulty variant: the last level is never tried.
LoopExhaustedEarly(k) == k >= Len(crf_values)

\* for crf in crf_values: the list is used up.
LoopExhausted(k) == k > Len(crf_values)

\* Faulty variant: the levels are walked from the most aggressive one down.
LevelAtReversed(k) == crf_values[Len(crf_values) + 1 - k]

LevelAt(k) == crf_values[k]

\* Faulty variant: an exception of the encoder run is not caught.
IterationResultNoCatch(o, there, file_size, bytes) ==
    IF o.rc = "raise" THEN "propagate"
    ELSE IF o.rc = "nonzero" THEN "continue"
    ELSE IF there /\ FitsCeiling(file_size, bytes) THEN "return_true"
    ELSE "next"

\* Faulty variant: a non-zero exit status does not skip the size check.
IterationResultNoSkip(o, there, file_size, bytes) ==
    IF o.rc = "raise" THEN "continue"
    ELSE IF there /\ FitsCeiling(file_size, bytes) THEN "return_true"
    ELSE "next"

\* What one pass of the loop body decides, given the run's outcome, whether
\* the output path exists afterwards, and the size found there.
IterationResult(o, there, file_size, bytes) ==
    IF o.rc = "raise" THEN "continue"
    ELSE IF o.rc = "nonzero" THEN "continue"
    ELSE IF there /\ FitsCeiling(file_size, bytes) THEN "return_true"
    ELSE "next"

NotFoundMsg == "Error: Input file does not exist."

NoInfoMsg == "Error: Could not get video information"

NoStreamMsg == "Error: No video stream found"

SuccessMsg == "Conversion successful!"

LimitMsg == "Could not create file under limit"

\* Lines 76-134: validate, probe, plan.
convert_gif_to_webm_plan ==
    /\ pc = "prepare"
    /\ \E hangs \in BOOLEAN :
        LET info == get_video_info(fs, args.input_path)
            out == IF args.output_path = NonePath
                   THEN DefaultOutputPath(args.input_path, args.mode)
                   ELSE args.output_path
            scale_filter == calculate_scale_filter(info.width, info.height, args.mode)
            returns(m) == /\ pc' = "returned" /\ result' = "False" /\ msg' = m
                          /\ UNCHANGED <<args, i, video_filter, duration_limit>>
            raises(m) == /\ pc' = "raised" /\ msg' = m
                         /\ UNCHANGED <<args, i, video_filter, duration_limit, result>>
        IN  IF ~exists(fs, args.input_path) THEN returns(NotFoundMsg)
            ELSE IF hangs
            THEN /\ pc' = "blocked"
                 /\ UNCHANGED <<args, i, video_filter, duration_limit, result, msg>>
            ELSE IF IsNone(info) THEN returns(NoInfoMsg)
            ELSE IF ~HasVideoStream(info) THEN returns(NoStreamMsg)
            ELSE IF scale_filter = ZeroDivisionError THEN raises(ZeroDivisionError)
            ELSE IF info.fps_den = 0 THEN raises(ZeroDivisionError)
            ELSE /\ pc' = "loop"
                 /\ args' = [args EXCEPT !.output_path = out]
                 /\ video_filter' = Filters(scale_filter, info)
                 /\ duration_limit' = DurationLimit(info.duration, args.mode)
                 /\ i' = 1
                 /\ UNCHANGED <<result, msg>>
    /\ form' = [form EXCEPT !.probed = @ \/ exists(fs, args.input_path)]
    /\ UNCHANGED <<download, edit>>
    /\ UNCHANGED <<caller, fs, request, response, attempts, encoder, runs, prev,
                   bulk, timers, other>>

\* Lines 136-192: one pass of the loop body.  The probe of a fitting output
\* (lines 176-184) only feeds prints, but it is one more call with no timeout.
convert_gif_to_webm_try ==
    /\ pc = "loop"
    /\ ~LoopExhausted(i)
    /\ LET crf == LevelAt(i)
           target == OutputTarget(args, crf)
       IN \E o \in encoder.table[crf], verify_hangs \in BOOLEAN :
            \* the encoder exits zero only if it could read its input
            /\ o.rc = "zero" => exists(fs, args.input_path)
            /\ LET after == RunEncoder(fs, target, o, crf, args.max_size_kb * 1024)
                   there == exists(after, target)
                   file_size == IF there THEN getsize(after, target) ELSE 0
                   step == IterationResult(o, there, file_size,
                                           max_size_bytes(args.max_size_kb))
               IN  IF o.rc = "hang"
                   THEN /\ pc' = "blocked"
                        /\ UNCHANGED <<fs, i, result, msg, attempts, encoder>>
                   ELSE /\ fs' = after
                        /\ attempts' = Append(attempts, [crf |-> crf, class |-> Classify(o),
                                                        t |-> duration_limit])
                        /\ encoder' = Observed(encoder, crf, o)
                        /\ IF step = "return_true"
                           THEN /\ pc' = IF verify_hangs THEN "blocked" ELSE "returned"
                                /\ result' = IF verify_hangs THEN result ELSE "True"
                                /\ msg' = SuccessMsg
                                /\ i' = i
                           ELSE IF step = "propagate"
                           THEN /\ pc' = "raised"
                                /\ msg' = "OSError"
                                /\ UNCHANGED <<i, result>>
                           ELSE /\ pc' = "loop"
                                /\ i' = i + 1
                                /\ UNCHANGED <<result, msg>>
    /\ UNCHANGED <<download, edit>>
    /\ UNCHANGED <<caller, request, response, args, video_filter, duration_limit,
                   runs, prev, form, bulk, timers, other>>

\* Lines 194-195: no level met the ceiling.
convert_gif_to_webm_give_up ==
    /\ pc = "loop"
    /\ LoopExhausted(i)
    /\ pc' = "returned"
    /\ result' = "False"
    /\ msg' = LimitMsg
    /\ UNCHANGED <<download, edit>>
    /\ UNCHANGED <<caller, fs, request, response, args, i, video_filter,
                   duration_limit, attempts, encoder, runs, prev, form, bulk, timers,
                   other>>

-----------------------------------------------------------------------------
(* POST /api/convert (src/server.py) *)

Filenames == {"", "anim.gif", "ANIM.GIF", "../anim.gif", "photo.png"}

\* '.' in filename and filename.rsplit('.', 1)[1].lower() in ALLOWED_EXTENSIONS
allowed_file(filename) ==
    filename \in {"anim.gif", "ANIM.GIF", "../anim.gif",
                  "trimmed.gif", "temp.gif", "reversed.gif"}

\* werkzeug's secure_filename: path separators and leading dots are dropped.
secure_filename(filename) ==
    IF filename = "../anim.gif" THEN "anim.gif" ELSE filename

\* request.content_length; -1 stands for None (no Content-Length header).
ContentLengths == {-1, 4096, MAX_FILE_SIZE + 1}

MaxSizeInputs == {MIN_MAX_SIZE_KB - 1, MIN_MAX_SIZE_KB,
                  MAX_MAX_SIZE_KB, MAX_MAX_SIZE_KB + 1}

ModeInputs == {"sticker", "emoji", "preview", "banner"}

\* The uploads of the search specification: size in bytes, and what the
\* prober reports for the file.  The prober is the environment: nothing here
\* assumes that it rejects an empty file.
Uploads ==
    {SourceFile(0, Video(4, 2, 5, 50, 1)),
     SourceFile(300000, Video(4, 2, 5, 50, 1)),
     SourceFile(300000, Video(1, 2, 2, 25, 1)),
     SourceFile(300000, Video(2, 0, 2, 25, 1)),
     SourceFile(300000, NoVideo),
     SourceFile(300000, Unreadable)}

\* uuid.uuid4(): the identifier of the one request of a behaviour.
FileId == "id1"

\* Nothing received yet.  max_size and mode are the form fields as sent
\* (numeric: whether the number fields parse), parsed whether the handler got
\* as far as reading them, checked whether it called check_ffmpeg.  The other
\* fields are the request as received (has_converter and ffmpeg_ok: the
\* server's side of it) and probed: whether get_video_info has been called.
NoForm == [max_size |-> 0, numeric |-> TRUE, mode |-> "", parsed |-> FALSE,
           checked |-> FALSE, has_converter |-> FALSE, ffmpeg_ok |-> FALSE,
           has_file |-> FALSE, filename |-> "", content_length |-> 0,
           probed |-> FALSE]

NoBulk == [files |-> << >>, k |-> 0, total |-> 0, successful |-> 0, failed |-> 0,
           results |-> << >>]

\* No second request.
NoOther == [pc |-> "none"]

\* No download request yet.
NoDownload == [n |-> 0, pc |-> "idle", file_id |-> "", file_path |-> NonePath,
               status |-> 0, error |-> ""]

\* Outside the trim and icon handlers.
NoEdit == [ping_pong |-> FALSE, temp |-> NonePath, temp_reversed |-> NonePath,
           ok |-> FALSE]

NoRequest == [file_id |-> "", secure_name |-> "", mode |-> "", max_size_kb |-> 0,
              original_size |-> 0, input_path |-> NonePath, output_path |-> NonePath]

NoArgs == [input_path |-> NonePath, output_path |-> NonePath, mode |-> "",
           max_size_kb |-> 0]

Response(status, success, error, size, kb, id) ==
    [status |-> status, success |-> success, error |-> error,
     output_size_bytes |-> size, max_size_kb |-> kb, download_id |-> id]

NoResponse == Response(0, FALSE, "", 0, 0, "")

Error(status, error) == Response(status, FALSE, error, 0, 0, "")

\* round((1 - output_size / original_size) * 100, 1), in tenths of a percent
\* (1000 * a / b to the nearest integer, a = original_size - output_size,
\* computed from the quotient and remainder of a by b to stay within 32 bits);
\* the division raises when original_size is 0.
compression_ratio(output_size, original_size) ==
    IF original_size = 0
    THEN [raises |-> TRUE, value |-> 0]
    ELSE LET a == original_size - output_size
             b == original_size
         IN  [raises |-> FALSE,
              value |-> 1000 * (a \div b) + (2000 * (a % b) + b) \div (2 * b)]

\* Faulty variant: the lower end of the max_size range is not checked.
RejectionNoFloor(has_converter, ffmpeg_ok, has_file, filename, content_length, numeric, max_size, mode) ==
    IF ~has_converter THEN Error(500, "Conversion module not available")
    ELSE IF ~ffmpeg_ok THEN Error(500, "FFmpeg not found on server")
    ELSE IF ~has_file THEN Error(400, "No file provided")
    ELSE IF filename = "" THEN Error(400, "No file selected")
    ELSE IF ~allowed_file(filename) THEN Error(400, "Only GIF files are allowed")
    ELSE IF content_length = -1
    THEN Error(500, "TypeError")
    ELSE IF content_length > MAX_FILE_SIZE THEN Error(400, "File too large")
    ELSE IF ~numeric THEN Error(500, "ValueError")
    ELSE IF max_size > MAX_MAX_SIZE_KB
    THEN Error(400, "Invalid max_size. Must be between 64 and 2048 KB")
    ELSE IF mode \notin {"sticker", "emoji"}
    THEN Error(400, "Invalid mode. Must be sticker or emoji")
    ELSE NoResponse

\* Lines 94-129: the answer of the first check that fails, NoResponse when none
\* does.  An exception raised on the way is answered 500 with
\* 'Internal server error: ' and the exception's text, kept here as its name.
Rejection(has_converter, ffmpeg_ok, has_file, filename, content_length, numeric, max_size, mode) ==
    IF ~has_converter THEN Error(500, "Conversion module not available")
    ELSE IF ~ffmpeg_ok THEN Error(500, "FFmpeg not found on server")
    ELSE IF ~has_file THEN Error(400, "No file provided")
    ELSE IF filename = "" THEN Error(400, "No file selected")
    ELSE IF ~allowed_file(filename) THEN Error(400, "Only GIF files are allowed")
    ELSE IF content_length = -1
    THEN Error(500, "TypeError")
    ELSE IF content_length > MAX_FILE_SIZE THEN Error(400, "File too large")
    ELSE IF ~numeric THEN Error(500, "ValueError")
    ELSE IF max_size < MIN_MAX_SIZE_KB \/ max_size > MAX_MAX_SIZE_KB
    THEN Error(400, "Invalid max_size. Must be between 64 and 2048 KB")
    ELSE IF mode \notin {"sticker", "emoji"}
    THEN Error(400, "Invalid mode. Must be sticker or emoji")
    ELSE NoResponse

\* Lines 89-157: sweep, validate, stage the upload, probe it, call the core.
convert_gif_receive ==
    /\ caller = "http"
    /\ pc = "start"
    /\ \E has_converter \in BOOLEAN, ffmpeg_ok \in BOOLEAN, has_file \in BOOLEAN,
          filename \in Filenames, content_length \in ContentLengths,
          numeric \in BOOLEAN, max_size \in MaxSizeInputs, mode \in ModeInputs,
          upload \in Uploads, hangs \in BOOLEAN :
        LET swept == cleanup_old_files(fs)
            rejection == Rejection(has_converter, ffmpeg_ok, has_file, filename,
                                   content_length, numeric, max_size, mode)
            secure_name == secure_filename(filename)
            input_path == <<FileId, secure_name>>
            output_path == <<FileId, "output.webm">>
            staged == write_file(swept, input_path, upload)
        IN  /\ form' = [max_size |-> max_size, numeric |-> numeric, mode |-> mode,
                         parsed |-> Rejection(has_converter, ffmpeg_ok, has_file,
                                        filename, content_length, TRUE,
                                        MIN_MAX_SIZE_KB, "sticker") = NoResponse,
                         checked |-> has_converter,
                         has_converter |-> has_converter, ffmpeg_ok |-> ffmpeg_ok,
                         has_file |-> has_file, filename |-> filename,
                         content_length |-> content_length,
                         probed |-> rejection = NoResponse]
            /\ IF rejection # NoResponse
               THEN /\ pc' = "responded"
                    /\ response' = rejection
                    /\ fs' = swept
                    /\ UNCHANGED <<request, args>>
               ELSE /\ fs' = staged
                    /\ request' = [file_id |-> FileId, secure_name |-> secure_name,
                                   mode |-> mode, max_size_kb |-> max_size,
                                   original_size |-> getsize(staged, input_path),
                                   input_path |-> input_path,
                                   output_path |-> output_path]
                    /\ IF hangs
                       THEN pc' = "blocked" /\ UNCHANGED args
                       ELSE /\ pc' = "prepare"
                            /\ args' = [input_path |-> input_path,
                                        output_path |-> output_path,
                                        mode |-> mode, max_size_kb |-> max_size]
                    /\ UNCHANGED response
    /\ UNCHANGED <<download, edit>>
    /\ UNCHANGED <<caller, i, video_filter, duration_limit, result, msg, attempts,
                   encoder, runs, prev, bulk, timers, other>>

\* Lines 159-220: the answer, and what is removed before it is given.
convert_gif_respond ==
    /\ caller = "http"
    /\ pc \in {"returned", "raised"}
    /\ \E hangs \in BOOLEAN :
        LET input_path == request.input_path
            output_path == request.output_path
            success == pc = "returned" /\ result = "True" /\ exists(fs, output_path)
            output_size == IF exists(fs, output_path) THEN getsize(fs, output_path) ELSE 0
            ratio == compression_ratio(output_size, request.original_size)
        IN  IF pc = "raised"
            THEN /\ pc' = "responded"
                 /\ response' = Error(500, msg)
                 /\ UNCHANGED fs
            ELSE IF success /\ hangs
            THEN pc' = "blocked" /\ UNCHANGED <<fs, response>>
            ELSE IF success /\ ratio.raises
            THEN /\ pc' = "responded"
                 /\ response' = Error(500, ZeroDivisionError)
                 /\ UNCHANGED fs
            ELSE IF success
            THEN /\ pc' = "responded"
                 /\ response' = Response(200, TRUE, "", output_size,
                                         request.max_size_kb, request.file_id)
                 /\ fs' = remove(fs, input_path)
            ELSE /\ pc' = "responded"
                 /\ response' = Error(400,
                        "Conversion failed. Could not create file under limit.")
                 /\ fs' = IF exists(fs, input_path)
                          THEN remove(remove(fs, input_path), output_path)
                          ELSE fs
    /\ UNCHANGED <<download, edit>>
    /\ UNCHANGED <<caller, request, args, i, video_filter, duration_limit, result,
                   msg, attempts, encoder, runs, prev, form, bulk, timers, other>>

-----------------------------------------------------------------------------
(* POST /convert/gif-to-webm (src/artifacts/server.py) *)

\* Lines 187-198: the answer of the first check that fails.
PreviewRejection(has_converter, ffmpeg_ok, has_file, filename, content_length) ==
    IF ~has_converter \/ ~ffmpeg_ok THEN Error(500, "FFmpeg or converter unavailable")
    ELSE IF ~has_file THEN Error(400, "No file provided")
    ELSE IF filename = "" \/ ~allowed_file(filename)
    THEN Error(400, "Only GIF files are allowed")
    ELSE IF content_length = -1 \/ content_length > MAX_FILE_SIZE
    THEN Error(400, "File too large")
    ELSE NoResponse

\* Lines 184-213: sweep, validate, stage the upload, call the core in preview
\* mode.  The form fields max_size and mode are not read.
convert_gif_to_webm_preview_receive ==
    /\ caller = "preview"
    /\ pc = "start"
    /\ \E has_converter \in BOOLEAN, ffmpeg_ok \in BOOLEAN, has_file \in BOOLEAN,
          filename \in Filenames, content_length \in ContentLengths,
          max_size \in MaxSizeInputs, upload \in Uploads :
        LET swept == cleanup_old_files(fs)
            rejection == PreviewRejection(has_converter, ffmpeg_ok, has_file,
                                          filename, content_length)
            secure_name == secure_filename(filename)
            in_path == <<FileId, secure_name>>
            out_path == <<FileId, "preview.webm">>
        IN  /\ form' = [max_size |-> max_size, numeric |-> TRUE, mode |-> "preview",
                         parsed |-> FALSE, checked |-> has_converter,
                         has_converter |-> has_converter, ffmpeg_ok |-> ffmpeg_ok,
                         has_file |-> has_file, filename |-> filename,
                         content_length |-> content_length, probed |-> FALSE]
            /\ IF rejection # NoResponse
               THEN /\ pc' = "responded"
                    /\ response' = rejection
                    /\ fs' = swept
                    /\ UNCHANGED <<request, args>>
               ELSE /\ fs' = write_file(swept, in_path, upload)
                    /\ request' = [file_id |-> FileId, secure_name |-> secure_name,
                                   mode |-> "preview",
                                   max_size_kb |-> PREVIEW_MAX_SIZE_KB,
                                   original_size |-> 0,
                                   input_path |-> in_path, output_path |-> out_path]
                    /\ args' = [input_path |-> in_path, output_path |-> out_path,
                                mode |-> "preview",
                                max_size_kb |-> PREVIEW_MAX_SIZE_KB]
                    /\ pc' = "prepare"
                    /\ UNCHANGED response
    /\ UNCHANGED <<download, edit>>
    /\ UNCHANGED <<caller, i, video_filter, duration_limit, result, msg, attempts,
                   encoder, runs, prev, bulk, timers, other>>

\* Lines 215-242: remove the input, answer with the WebM body and start the
\* timer that removes it, or answer with the failure.
convert_gif_to_webm_preview_respond ==
    /\ caller = "preview"
    /\ pc \in {"returned", "raised"}
    /\ LET in_path == request.input_path
           out_path == request.output_path
           ok == pc = "returned" /\ result = "True"
           cleaned == remove(fs, in_path)
       IN  IF pc = "raised"
           THEN /\ response' = Error(500, "Internal server error")
                /\ UNCHANGED <<fs, timers>>
           ELSE IF ~ok \/ ~exists(cleaned, out_path)
           THEN /\ response' = Error(400, "Conversion failed")
                /\ fs' = remove(cleaned, out_path)
                /\ UNCHANGED timers
           ELSE /\ response' = Response(200, TRUE, "", getsize(cleaned, out_path),
                                        PREVIEW_MAX_SIZE_KB, "")
                /\ fs' = cleaned
                /\ timers' = timers \cup {out_path}
    /\ pc' = "responded"
    /\ UNCHANGED <<download, edit>>
    /\ UNCHANGED <<caller, request, args, i, video_filter, duration_limit, result,
                   msg, attempts, encoder, runs, prev, form, bulk, other>>

\* _cleanup, 30 seconds after the answer: os.remove(out_path), errors ignored.
preview_cleanup ==
    /\ \E p \in timers :
        /\ fs' = remove(fs, p)
        /\ timers' = timers \ {p}
    /\ UNCHANGED <<download, edit>>
    /\ UNCHANGED <<caller, pc, request, response, args, i, video_filter,
                   duration_limit, result, msg, attempts, encoder, runs, prev,
                   form, bulk, other>>

-----------------------------------------------------------------------------
(* POST /api/convert (src/artifacts/server.py) *)

\* Lines 469-491: the answer of the first check that fails.  An exception (a
\* number field that does not parse) is answered 500 'Internal server error'.
ApiRejection(has_converter, ffmpeg_ok, has_file, filename, content_length, numeric, max_size, mode) ==
    IF ~has_converter THEN Error(500, "Conversion module not available")
    ELSE IF ~ffmpeg_ok THEN Error(500, "FFmpeg not found on server")
    ELSE IF ~has_file THEN Error(400, "No file provided")
    ELSE IF filename = "" THEN Error(400, "No file selected")
    ELSE IF ~allowed_file(filename) THEN Error(400, "Only GIF files are allowed")
    ELSE IF content_length = -1 \/ content_length > MAX_FILE_SIZE
    THEN Error(400, "File too large")
    ELSE IF ~numeric THEN Error(500, "Internal server error")
    ELSE IF max_size < MIN_MAX_SIZE_KB \/ max_size > MAX_MAX_SIZE_KB
    THEN Error(400, "Invalid max_size. Must be between 64 and 2048 KB")
    ELSE IF mode \notin {"sticker", "emoji", "preview"}
    THEN Error(400, "Invalid mode. Must be sticker, emoji, or preview")
    ELSE NoResponse

\* max_size_kb if mode != 'preview' else 2048
ApiCeiling(max_size_kb, mode) ==
    IF mode # "preview" THEN max_size_kb ELSE PREVIEW_MAX_SIZE_KB

\* Lines 463-509: sweep, validate, stage the upload, probe it, call the core.
api_convert_gif_receive ==
    /\ caller = "convert"
    /\ pc = "start"
    /\ \E has_converter \in BOOLEAN, ffmpeg_ok \in BOOLEAN, has_file \in BOOLEAN,
          filename \in Filenames, content_length \in ContentLengths,
          numeric \in BOOLEAN, max_size \in MaxSizeInputs, mode \in ModeInputs,
          upload \in Uploads, hangs \in BOOLEAN :
        LET swept == cleanup_old_files(fs)
            rejection == ApiRejection(has_converter, ffmpeg_ok, has_file, filename,
                                      content_length, numeric, max_size, mode)
            secure_name == secure_filename(filename)
            input_path == <<FileId, secure_name>>
            output_path == <<FileId, "output.webm">>
            staged == write_file(swept, input_path, upload)
        IN  /\ form' = [max_size |-> max_size, numeric |-> numeric, mode |-> mode,
                         parsed |-> ApiRejection(has_converter, ffmpeg_ok, has_file,
                                        filename, content_length, TRUE,
                                        MIN_MAX_SIZE_KB, "sticker") = NoResponse,
                         checked |-> has_converter,
                         has_converter |-> has_converter, ffmpeg_ok |-> ffmpeg_ok,
                         has_file |-> has_file, filename |-> filename,
                         content_length |-> content_length,
                         probed |-> rejection = NoResponse]
            /\ IF rejection # NoResponse
               THEN /\ pc' = "responded"
                    /\ response' = rejection
                    /\ fs' = swept
                    /\ UNCHANGED <<request, args>>
               ELSE /\ fs' = staged
                    /\ request' = [file_id |-> FileId, secure_name |-> secure_name,
                                   mode |-> mode, max_size_kb |-> max_size,
                                   original_size |-> getsize(staged, input_path),
                                   input_path |-> input_path,
                                   output_path |-> output_path]
                    /\ IF hangs
                       THEN pc' = "blocked" /\ UNCHANGED args
                       ELSE /\ pc' = "prepare"
                            /\ args' = [input_path |-> input_path,
                                        output_path |-> output_path,
                                        mode |-> mode,
                                        max_size_kb |-> ApiCeiling(max_size, mode)]
                    /\ UNCHANGED response
    /\ UNCHANGED <<download, edit>>
    /\ UNCHANGED <<caller, i, video_filter, duration_limit, result, msg, attempts,
                   encoder, runs, prev, bulk, timers, other>>

\* Lines 511-559: the answer, and what is removed before it is given.
api_convert_gif_respond ==
    /\ caller = "convert"
    /\ pc \in {"returned", "raised"}
    /\ \E hangs \in BOOLEAN :
        LET input_path == request.input_path
            output_path == request.output_path
            ok == pc = "returned" /\ result = "True" /\ exists(fs, output_path)
            output_size == IF exists(fs, output_path) THEN getsize(fs, output_path) ELSE 0
            ratio == compression_ratio(output_size, request.original_size)
        IN  IF pc = "raised"
            THEN /\ pc' = "responded"
                 /\ response' = Error(500, "Internal server error")
                 /\ UNCHANGED fs
            ELSE IF ok /\ hangs
            THEN pc' = "blocked" /\ UNCHANGED <<fs, response>>
            ELSE IF ok /\ ratio.raises
            THEN /\ pc' = "responded"
                 /\ response' = Error(500, "Internal server error")
                 /\ UNCHANGED fs
            ELSE IF ok
            THEN /\ pc' = "responded"
                 /\ response' = Response(200, TRUE, "", output_size,
                                         request.max_size_kb, request.file_id)
                 /\ fs' = remove(fs, input_path)
            ELSE /\ pc' = "responded"
                 /\ response' = Error(400, "Conversion failed. Could not meet limit.")
                 /\ fs' = IF exists(fs, input_path)
                          THEN remove(remove(fs, input_path), output_path)
                          ELSE fs
    /\ UNCHANGED <<download, edit>>
    /\ UNCHANGED <<caller, request, args, i, video_filter, duration_limit, result,
                   msg, attempts, encoder, runs, prev, form, bulk, timers, other>>

-----------------------------------------------------------------------------
(* POST /api/convert-bulk (src/artifacts/server.py) *)

\* uuid.uuid4() of the k-th file of the request.
FileIds == <<"id1", "id2", "id3", "id4">>

\* The files a bulk request may carry: one with no name, one that is no GIF,
\* a GIF with a video stream and one without.
BulkEntries ==
    {[filename |-> "", upload |-> SourceFile(300000, NoVideo)],
     [filename |-> "photo.png", upload |-> SourceFile(300000, NoVideo)],
     [filename |-> "anim.gif", upload |-> SourceFile(300000, Video(4, 2, 5, 50, 1))],
     [filename |-> "anim.gif", upload |-> SourceFile(300000, NoVideo)]}

BulkFileLists == UNION {[1..n -> BulkEntries] : n \in 0..MaxFiles}

\* Lines 681-696: the answer of the first check that fails.
BulkRejection(has_converter, ffmpeg_ok, nfiles, numeric, max_size, mode) ==
    IF ~has_converter THEN Error(500, "Conversion module not available")
    ELSE IF ~ffmpeg_ok THEN Error(500, "FFmpeg not found on server")
    ELSE IF nfiles = 0 THEN Error(400, "No files provided")
    ELSE IF ~numeric THEN Error(500, "Internal server error")
    ELSE IF max_size < MIN_MAX_SIZE_KB \/ max_size > MAX_MAX_SIZE_KB
    THEN Error(400, "Invalid max_size. Must be between 64 and 2048 KB")
    ELSE IF mode \notin {"sticker", "emoji", "preview"}
    THEN Error(400, "Invalid mode. Must be sticker, emoji, or preview")
    ELSE NoResponse

BulkResult(filename, success, error) ==
    [filename |-> filename, success |-> success, error |-> error]

\* Lines 676-698: sweep, validate, start the loop over the files.
convert_bulk_receive ==
    /\ caller = "bulk"
    /\ pc = "start"
    /\ \E has_converter \in BOOLEAN, ffmpeg_ok \in BOOLEAN, files \in BulkFileLists,
          numeric \in BOOLEAN, max_size \in MaxSizeInputs, mode \in ModeInputs :
        LET rejection == BulkRejection(has_converter, ffmpeg_ok, Len(files),
                                       numeric, max_size, mode)
        IN  /\ form' = [max_size |-> max_size, numeric |-> numeric, mode |-> mode,
                         parsed |-> BulkRejection(has_converter, ffmpeg_ok,
                                        Len(files), TRUE, MIN_MAX_SIZE_KB,
                                        "sticker") = NoResponse,
                         checked |-> has_converter,
                         has_converter |-> has_converter, ffmpeg_ok |-> ffmpeg_ok,
                         has_file |-> Len(files) > 0, filename |-> "",
                         content_length |-> 0, probed |-> FALSE]
            /\ fs' = cleanup_old_files(fs)
            /\ IF rejection # NoResponse
               THEN /\ pc' = "responded"
                    /\ response' = rejection
                    /\ UNCHANGED <<request, bulk>>
               ELSE /\ pc' = "bulk_loop"
                    /\ request' = [NoRequest EXCEPT !.mode = mode,
                                                    !.max_size_kb = max_size]
                    /\ bulk' = [NoBulk EXCEPT !.files = files, !.k = 1]
                    /\ UNCHANGED response
    /\ UNCHANGED <<download, edit>>
    /\ UNCHANGED <<caller, args, i, video_filter, duration_limit, result, msg,
                   attempts, encoder, runs, prev, timers, other>>

\* Lines 700-720: the next file: skipped, refused, or staged and handed to
\* the core with the request's mode and max_size.
convert_bulk_file ==
    /\ caller = "bulk"
    /\ pc = "bulk_loop"
    /\ bulk.k <= Len(bulk.files)
    /\ LET file == bulk.files[bulk.k]
           secure_name == secure_filename(file.filename)
           in_path == <<FileIds[bulk.k], secure_name>>
           out_path == <<FileIds[bulk.k], "output.webm">>
           staged == write_file(fs, in_path, file.upload)
       IN  IF file.filename = ""
           THEN /\ bulk' = [bulk EXCEPT !.k = bulk.k + 1]
                /\ UNCHANGED <<pc, fs, request, args, i, result, msg, attempts>>
           ELSE IF ~allowed_file(file.filename)
           THEN /\ bulk' = [bulk EXCEPT
                              !.k = bulk.k + 1,
                              !.failed = bulk.failed + 1,
                              !.results = Append(bulk.results,
                                  BulkResult(file.filename, FALSE, "Not a GIF file"))]
                /\ UNCHANGED <<pc, fs, request, args, i, result, msg, attempts>>
           ELSE /\ fs' = staged
                /\ request' = [request EXCEPT
                                 !.file_id = FileIds[bulk.k],
                                 !.secure_name = secure_name,
                                 !.original_size = getsize(staged, in_path),
                                 !.input_path = in_path,
                                 !.output_path = out_path]
                /\ args' = [input_path |-> in_path, output_path |-> out_path,
                            mode |-> request.mode,
                            max_size_kb |-> request.max_size_kb]
                /\ pc' = "prepare"
                /\ i' = 0
                /\ result' = "none"
                /\ msg' = ""
                /\ attempts' = << >>
                /\ UNCHANGED bulk
    /\ UNCHANGED <<download, edit>>
    /\ UNCHANGED <<caller, response, video_filter, duration_limit, encoder, runs,
                   prev, form, timers, other>>

\* Lines 722-747: the file's entry in the results, and what is removed.  An
\* exception ends the whole request with 500 (lines 751-753).
convert_bulk_file_done ==
    /\ caller = "bulk"
    /\ pc \in {"returned", "raised"}
    /\ LET in_path == request.input_path
           out_path == request.output_path
           ok == pc = "returned" /\ result = "True" /\ exists(fs, out_path)
           out_size == IF exists(fs, out_path) THEN getsize(fs, out_path) ELSE 0
           ratio == compression_ratio(out_size, request.original_size)
       IN  IF pc = "raised" \/ (ok /\ ratio.raises)
           THEN /\ pc' = "responded"
                /\ response' = Error(500, "Internal server error")
                /\ UNCHANGED <<fs, bulk>>
           ELSE IF ok
           THEN /\ pc' = "bulk_loop"
                /\ bulk' = [bulk EXCEPT
                              !.k = bulk.k + 1,
                              !.successful = bulk.successful + 1,
                              !.results = Append(bulk.results,
                                  BulkResult(request.secure_name, TRUE, ""))]
                /\ fs' = remove(fs, in_path)
                /\ UNCHANGED response
           ELSE /\ pc' = "bulk_loop"
                /\ bulk' = [bulk EXCEPT
                              !.k = bulk.k + 1,
                              !.failed = bulk.failed + 1,
                              !.results = Append(bulk.results,
                                  BulkResult(request.secure_name, FALSE,
                                             "Could not compress under limit"))]
                /\ fs' = IF exists(fs, in_path)
                         THEN remove(remove(fs, in_path), out_path)
                         ELSE fs
                /\ UNCHANGED response
    /\ UNCHANGED <<download, edit>>
    /\ UNCHANGED <<caller, request, args, i, video_filter, duration_limit, result,
                   msg, attempts, encoder, runs, prev, form, timers, other>>

\* Line 749: the totals, once every file has been handled.
convert_bulk_respond ==
    /\ caller = "bulk"
    /\ pc = "bulk_loop"
    /\ bulk.k > Len(bulk.files)
    /\ pc' = "responded"
    /\ bulk' = [bulk EXCEPT !.total = Len(bulk.files)]
    /\ response' = Response(200, TRUE, "", 0, request.max_size_kb, "")
    /\ UNCHANGED <<download, edit>>
    /\ UNCHANGED <<caller, fs, request, args, i, video_filter, duration_limit,
                   result, msg, attempts, encoder, runs, prev, form, timers, other>>

-----------------------------------------------------------------------------
(* A second request to /api/convert, served by another thread, and the clock *)

\* uuid.uuid4() of the second request.
OtherFileId == "id9"

OtherInputPath == <<OtherFileId, "anim.gif">>

OtherOutputPath == <<OtherFileId, "output.webm">>

\* Lines 467-497 of the second request: the sweep of the upload folder, then
\* its own upload staged under its own identifier.
other_convert_gif_receive ==
    /\ other.pc = "start"
    /\ fs' = write_file(cleanup_old_files(fs), OtherInputPath,
                        SourceFile(300000, Video(4, 2, 5, 50, 1)))
    /\ other' = [pc |-> "converting"]
    /\ UNCHANGED <<download, edit>>
    /\ UNCHANGED <<caller, pc, request, response, args, i, video_filter,
                   duration_limit, result, msg, attempts, encoder, runs, prev,
                   form, bulk, timers>>

\* Lines 504-509 of the second request: one encoder run of its search, which
\* writes its own output path and may be the last.
other_convert_gif_encode ==
    /\ other.pc = "converting"
    /\ \E next \in {"converting", "succeeded", "failed"} :
        /\ fs' = write_file(fs, OtherOutputPath, Artifact(1024, crf_values[1]))
        /\ other' = [pc |-> next]
    /\ UNCHANGED <<download, edit>>
    /\ UNCHANGED <<caller, pc, request, response, args, i, video_filter,
                   duration_limit, result, msg, attempts, encoder, runs, prev,
                   form, bulk, timers>>

\* Lines 511-555 of the second request: its input removed, and its output
\* too on the fail path.
other_convert_gif_respond ==
    /\ other.pc \in {"succeeded", "failed"}
    /\ fs' = IF other.pc = "succeeded"
             THEN remove(fs, OtherInputPath)
             ELSE IF exists(fs, OtherInputPath)
             THEN remove(remove(fs, OtherInputPath), OtherOutputPath)
             ELSE fs
    /\ other' = [pc |-> IF other.pc = "succeeded" THEN "responded" ELSE "done"]
    /\ UNCHANGED <<download, edit>>
    /\ UNCHANGED <<caller, pc, request, response, args, i, video_filter,
                   duration_limit, result, msg, attempts, encoder, runs, prev,
                   form, bulk, timers>>

\* download_file (lines 632-656) for the second request's identifier: the
\* file is sent and a timer started that removes it.
other_download_file ==
    /\ other.pc = "responded"
    /\ exists(fs, OtherOutputPath)
    /\ timers' = timers \cup {OtherOutputPath}
    /\ other' = [pc |-> "done"]
    /\ UNCHANGED <<download, edit>>
    /\ UNCHANGED <<caller, pc, fs, request, response, args, i, video_filter,
                   duration_limit, result, msg, attempts, encoder, runs, prev,
                   form, bulk>>

\* An hour goes by: every file there is now has a creation time more than
\* 3600 seconds in the past (line 58).
hour_passes ==
    /\ \E p \in DOMAIN fs : ~fs[p].stale
    /\ fs' = [p \in DOMAIN fs |-> [fs[p] EXCEPT !.stale = TRUE]]
    /\ UNCHANGED <<download, edit>>
    /\ UNCHANGED <<caller, pc, request, response, args, i, video_filter,
                   duration_limit, result, msg, attempts, encoder, runs, prev,
                   form, bulk, timers, other>>

-----------------------------------------------------------------------------
(* GET /api/download/<file_id> *)

\* How many download requests a behaviour has.
MaxDownloads == 2

\* An identifier the server never gave out.
StrangerId == "id0"

\* The identifiers a client can ask for: the download_id of the response it
\* got (a uuid4, not to be guessed before), and any other string.
DownloadIds ==
    (IF response.success /\ response.download_id # "" THEN {response.download_id}
     ELSE {}) \cup {StrangerId}

NotFound(download_n, file_id) ==
    [n |-> download_n, pc |-> "answered", file_id |-> file_id,
     file_path |-> NonePath, status |-> 404, error |-> "File not found or expired"]

\* Lines 222-231 of src/server.py: the request arrives, the output path of
\* the identifier is looked up, and 404 is answered when it does not exist.
download_file ==
    /\ caller = "http"
    /\ pc = "responded"
    /\ download.pc # "sending"
    /\ download.n < MaxDownloads
    /\ \E file_id \in DownloadIds :
        LET output_path == <<file_id, "output.webm">>
        IN  download' = IF ~exists(fs, output_path)
                        THEN NotFound(download.n + 1, file_id)
                        ELSE [n |-> download.n + 1, pc |-> "sending",
                              file_id |-> file_id, file_path |-> output_path,
                              status |-> 0, error |-> ""]
    /\ UNCHANGED <<fs, timers>>
    /\ UNCHANGED <<caller, pc, request, response, args, i, video_filter,
                   duration_limit, result, msg, attempts, encoder, runs, prev,
                   form, bulk, other, edit>>

\* Lines 632-647 of src/artifacts/server.py: the same, with the trimmed GIF of
\* the identifier as the second place to look.
api_download_file ==
    /\ caller = "convert"
    /\ pc = "responded"
    /\ download.pc # "sending"
    /\ download.n < MaxDownloads
    /\ \E file_id \in DownloadIds :
        LET webm_path == <<file_id, "output.webm">>
            gif_path == <<file_id, "trimmed.gif">>
        IN  download' = IF exists(fs, webm_path)
                        THEN [n |-> download.n + 1, pc |-> "sending",
                              file_id |-> file_id, file_path |-> webm_path,
                              status |-> 0, error |-> ""]
                        ELSE IF exists(fs, gif_path)
                        THEN [n |-> download.n + 1, pc |-> "sending",
                              file_id |-> file_id, file_path |-> gif_path,
                              status |-> 0, error |-> ""]
                        ELSE NotFound(download.n + 1, file_id)
    /\ UNCHANGED <<fs, timers>>
    /\ UNCHANGED <<caller, pc, request, response, args, i, video_filter,
                   duration_limit, result, msg, attempts, encoder, runs, prev,
                   form, bulk, other, edit>>

\* Faulty variant: the file is sent but no timer is started.
download_file_send_no_timer ==
    /\ download.pc = "sending"
    /\ IF exists(fs, download.file_path)
       THEN /\ download' = [download EXCEPT !.pc = "answered", !.status = 200]
            /\ UNCHANGED timers
       ELSE /\ download' = [download EXCEPT !.pc = "answered", !.status = 500,
                                            !.file_path = NonePath,
                                            !.error = "Download failed"]
            /\ UNCHANGED timers
    /\ UNCHANGED fs
    /\ UNCHANGED <<caller, pc, request, response, args, i, video_filter,
                   duration_limit, result, msg, attempts, encoder, runs, prev,
                   form, bulk, other, edit>>

\* Lines 233-258 of src/server.py, 649-660 of src/artifacts/server.py:
\* send_file opens the file and the timer that removes it is started; when the
\* file has gone since the lookup, send_file raises and the answer is 500.
download_file_send ==
    /\ download.pc = "sending"
    /\ IF exists(fs, download.file_path)
       THEN /\ download' = [download EXCEPT !.pc = "answered", !.status = 200]
            /\ timers' = timers \cup {download.file_path}
       ELSE /\ download' = [download EXCEPT !.pc = "answered", !.status = 500,
                                            !.file_path = NonePath,
                                            !.error = "Download failed"]
            /\ UNCHANGED timers
    /\ UNCHANGED fs
    /\ UNCHANGED <<caller, pc, request, response, args, i, video_filter,
                   duration_limit, result, msg, attempts, encoder, runs, prev,
                   form, bulk, other, edit>>

\* remove_file_after_send / _cleanup, 10 seconds after the file was sent:
\* os.remove(output_path), errors ignored.
remove_file_after_send ==
    /\ \E p \in timers :
        /\ fs' = remove(fs, p)
        /\ timers' = timers \ {p}
    /\ UNCHANGED <<caller, pc, request, response, args, i, video_filter,
                   duration_limit, result, msg, attempts, encoder, runs, prev,
                   form, bulk, other, download, edit>>

-----------------------------------------------------------------------------
(* POST /edit/trim-gif, /api/trim-gif, /convert/image-to-icon
   (src/artifacts/server.py) *)

\* file.filename of an upload to these endpoints.
EditFilenames ==
    {"", "anim.gif", "trimmed.gif", "temp.gif", "reversed.gif", "photo.png",
     "icon.png"}

EditUploads ==
    {SourceFile(300000, Video(4, 2, 5, 50, 1)), SourceFile(4096, Video(2, 2, 1, 25, 1))}

\* start / end as sent: numbers in range, a text float() refuses, or numbers
\* outside 0 <= start < end <= start + 60.
TimeInputs == {"valid", "ValueError", "range"}

BackgroundInputs == {"transparent", "white", "black", "red"}

ScalingInputs == {"contain", "cover", "stretch"}

\* request.content_length of an icon request; -1 stands for None.
IconContentLengths == {-1, 4096, 10 * 1024 * 1024 + 1}

\* The extension is one of ALLOWED_IMAGE_EXTENSIONS.
allowed_image_file(filename) ==
    allowed_file(filename) \/ filename \in {"photo.png", "icon.png"}

\* Lines 254-273 and 566-583: the answer of the first check that fails.
TrimRejection(ffmpeg_ok, has_file, filename, time) ==
    IF ~ffmpeg_ok THEN Error(500, "FFmpeg not found on server")
    ELSE IF ~has_file THEN Error(400, "No file provided")
    ELSE IF filename = "" \/ ~allowed_file(filename)
    THEN Error(400, "Only GIF files are allowed")
    ELSE IF time = "ValueError" THEN Error(400, "Invalid time parameters")
    ELSE IF time = "range" THEN Error(400, "Invalid time range")
    ELSE NoResponse

\* Lines 386-411: the answer of the first check that fails.
IconRejection(ffmpeg_ok, has_file, filename, content_length, background, scaling) ==
    IF ~ffmpeg_ok THEN Error(500, "FFmpeg not found on server")
    ELSE IF ~has_file THEN Error(400, "No file provided")
    ELSE IF filename = "" THEN Error(400, "No file selected")
    ELSE IF ~allowed_image_file(filename)
    THEN Error(400, "Only image files are allowed")
    ELSE IF content_length = -1 \/ content_length > 10 * 1024 * 1024
    THEN Error(400, "File too large")
    ELSE IF background \notin {"transparent", "white", "black"}
    THEN Error(400, "Invalid background option")
    ELSE IF scaling \notin {"contain", "cover"}
    THEN Error(400, "Invalid scaling option")
    ELSE NoResponse

\* What an ffmpeg run of these handlers writes (by = 1: no level of the
\* quality search).
Edited == [size |-> 1024, by |-> 1, media |-> Video(4, 2, 1, 50, 1), stale |-> FALSE]

\* run_ffmpeg_command(['ffmpeg', '-y', '-i', input..., output]): True and the
\* output written when ffmpeg exits 0; False otherwise (non-zero exit, the
\* 300 s timeout, any exception).  ffmpeg does not exit 0 without its inputs,
\* nor when the output is one of them: it refuses to write onto its input.
run_ffmpeg_command(f, inputs, output, works) ==
    IF works /\ inputs \subseteq DOMAIN f /\ output \notin inputs
    THEN [ok |-> TRUE, fs |-> write_file(f, output, Edited)]
    ELSE [ok |-> FALSE, fs |-> f]

\* Lines 251-286: sweep, validate, name the paths, stage the upload.
edit_trim_gif_blob_stage ==
    /\ caller = "trim_blob"
    /\ pc = "start"
    /\ \E ffmpeg_ok \in BOOLEAN, has_file \in BOOLEAN, filename \in EditFilenames,
          time \in TimeInputs, ping_pong \in BOOLEAN, upload \in EditUploads :
        LET swept == cleanup_old_files(fs)
            rejection == TrimRejection(ffmpeg_ok, has_file, filename, time)
            secure_name == secure_filename(filename)
            in_path == <<FileId, secure_name>>
            out_path == <<FileId, "trimmed.gif">>
        IN  IF rejection # NoResponse
            THEN /\ pc' = "responded"
                 /\ response' = rejection
                 /\ fs' = swept
                 /\ UNCHANGED <<request, edit>>
            ELSE /\ pc' = "staged"
                 /\ fs' = write_file(swept, in_path, upload)
                 /\ request' = [NoRequest EXCEPT !.file_id = FileId,
                                                 !.secure_name = secure_name,
                                                 !.input_path = in_path,
                                                 !.output_path = out_path]
                 /\ edit' = [ping_pong |-> ping_pong,
                             temp |-> IF ping_pong THEN <<FileId, "temp.gif">>
                                      ELSE NonePath,
                             temp_reversed |-> IF ping_pong
                                               THEN <<FileId, "reversed.gif">>
                                               ELSE NonePath,
                             ok |-> FALSE]
                 /\ UNCHANGED response
    /\ UNCHANGED timers
    /\ UNCHANGED <<caller, args, i, video_filter, duration_limit, result, msg,
                   attempts, encoder, runs, prev, form, bulk, other, download>>

\* Lines 283-344: the encoder runs of the trim, and the temp files removed.
edit_trim_gif_blob_run ==
    /\ caller = "trim_blob"
    /\ pc = "staged"
    /\ \E works1 \in BOOLEAN, works2 \in BOOLEAN, works3 \in BOOLEAN :
        LET in_path == request.input_path
            out_path == request.output_path
            trim == run_ffmpeg_command(fs, {in_path}, edit.temp, works1)
            reverse == IF trim.ok
                       THEN run_ffmpeg_command(trim.fs, {edit.temp},
                                               edit.temp_reversed, works2)
                       ELSE trim
            concat == IF trim.ok /\ reverse.ok
                      THEN run_ffmpeg_command(reverse.fs,
                               {edit.temp, edit.temp_reversed}, out_path, works3)
                      ELSE reverse
            regular == run_ffmpeg_command(fs, {in_path}, out_path, works1)
        IN  IF edit.ping_pong
            THEN /\ fs' = remove(remove(concat.fs, edit.temp), edit.temp_reversed)
                 /\ edit' = [edit EXCEPT !.ok = concat.ok]
            ELSE /\ fs' = regular.fs
                 /\ edit' = [edit EXCEPT !.ok = regular.ok]
    /\ pc' = "ran"
    /\ UNCHANGED <<request, response, timers>>
    /\ UNCHANGED <<caller, args, i, video_filter, duration_limit, result, msg,
                   attempts, encoder, runs, prev, form, bulk, other, download>>

\* Lines 346-372: the input removed, then the GIF sent and the timer that
\* removes it started, or 400 when there is no output.
edit_trim_gif_blob_respond ==
    /\ caller = "trim_blob"
    /\ pc = "ran"
    /\ LET cleaned == remove(fs, request.input_path)
           out_path == request.output_path
       IN  IF ~edit.ok \/ ~exists(cleaned, out_path)
           THEN /\ response' = Error(400, "GIF trimming failed")
                /\ fs' = remove(cleaned, out_path)
                /\ UNCHANGED timers
           ELSE /\ response' = Response(200, TRUE, "", getsize(cleaned, out_path), 0, "")
                /\ fs' = cleaned
                /\ timers' = timers \cup {out_path}
    /\ pc' = "responded"
    /\ UNCHANGED <<request, edit>>
    /\ UNCHANGED <<caller, args, i, video_filter, duration_limit, result, msg,
                   attempts, encoder, runs, prev, form, bulk, other, download>>

\* Lines 561-590: sweep, validate, name the paths, stage the upload.
trim_gif_json_stage ==
    /\ caller = "trim_json"
    /\ pc = "start"
    /\ \E ffmpeg_ok \in BOOLEAN, has_file \in BOOLEAN, filename \in EditFilenames,
          time \in TimeInputs, ping_pong \in BOOLEAN, upload \in EditUploads :
        LET swept == cleanup_old_files(fs)
            rejection == TrimRejection(ffmpeg_ok, has_file, filename, time)
            secure_name == secure_filename(filename)
            in_path == <<FileId, secure_name>>
            out_path == <<FileId, "trimmed.gif">>
        IN  IF rejection # NoResponse
            THEN /\ pc' = "responded"
                 /\ response' = rejection
                 /\ fs' = swept
                 /\ UNCHANGED <<request, edit>>
            ELSE /\ pc' = "staged"
                 /\ fs' = write_file(swept, in_path, upload)
                 /\ request' = [NoRequest EXCEPT !.file_id = FileId,
                                                 !.secure_name = secure_name,
                                                 !.input_path = in_path,
                                                 !.output_path = out_path]
                 /\ edit' = [NoEdit EXCEPT !.ping_pong = ping_pong]
                 /\ UNCHANGED response
    /\ UNCHANGED timers
    /\ UNCHANGED <<caller, args, i, video_filter, duration_limit, result, msg,
                   attempts, encoder, runs, prev, form, bulk, other, download>>

\* Lines 592-626: the encoder run, then the answer: success with the
\* download_id and the input removed, or 400 with both files removed.
trim_gif_json_respond ==
    /\ caller = "trim_json"
    /\ pc = "staged"
    /\ \E works \in BOOLEAN :
        LET in_path == request.input_path
            out_path == request.output_path
            run == run_ffmpeg_command(fs, {in_path}, out_path, works)
        IN  IF run.ok /\ exists(run.fs, out_path)
            THEN /\ response' = Response(200, TRUE, "", getsize(run.fs, out_path),
                                         0, request.file_id)
                 /\ fs' = remove(run.fs, in_path)
                 /\ edit' = [edit EXCEPT !.ok = TRUE]
            ELSE /\ response' = Error(400, "GIF trimming failed")
                 /\ fs' = remove(remove(run.fs, in_path), out_path)
                 /\ UNCHANGED edit
    /\ pc' = "responded"
    /\ UNCHANGED <<request, timers>>
    /\ UNCHANGED <<caller, args, i, video_filter, duration_limit, result, msg,
                   attempts, encoder, runs, prev, form, bulk, other, download>>

\* Lines 383-417: sweep, validate, name the paths, stage the upload.
convert_image_to_icon_stage ==
    /\ caller = "icon"
    /\ pc = "start"
    /\ \E ffmpeg_ok \in BOOLEAN, has_file \in BOOLEAN, filename \in EditFilenames,
          content_length \in IconContentLengths,
          background \in BackgroundInputs, scaling \in ScalingInputs, upload \in EditUploads :
        LET swept == cleanup_old_files(fs)
            rejection == IconRejection(ffmpeg_ok, has_file, filename, content_length,
                                       background, scaling)
            secure_name == secure_filename(filename)
            in_path == <<FileId, secure_name>>
            out_path == <<FileId, "icon.png">>
        IN  IF rejection # NoResponse
            THEN /\ pc' = "responded"
                 /\ response' = rejection
                 /\ fs' = swept
                 /\ UNCHANGED <<request, edit>>
            ELSE /\ pc' = "staged"
                 /\ fs' = write_file(swept, in_path, upload)
                 /\ request' = [NoRequest EXCEPT !.file_id = FileId,
                                                 !.secure_name = secure_name,
                                                 !.input_path = in_path,
                                                 !.output_path = out_path]
                 /\ edit' = NoEdit
                 /\ UNCHANGED response
    /\ UNCHANGED timers
    /\ UNCHANGED <<caller, args, i, video_filter, duration_limit, result, msg,
                   attempts, encoder, runs, prev, form, bulk, other, download>>

\* Lines 420-452: convert_to_icon_ffmpeg (one encoder run), the input
\* removed, then the PNG sent and the timer that removes it started, or 400.
convert_image_to_icon_respond ==
    /\ caller = "icon"
    /\ pc = "staged"
    /\ \E works \in BOOLEAN :
        LET in_path == request.input_path
            out_path == request.output_path
            run == run_ffmpeg_command(fs, {in_path}, out_path, works)
            cleaned == remove(run.fs, in_path)
        IN  IF ~run.ok \/ ~exists(cleaned, out_path)
            THEN /\ response' = Error(400, "Image conversion failed")
                 /\ fs' = remove(cleaned, out_path)
                 /\ UNCHANGED <<edit, timers>>
            ELSE /\ response' = Response(200, TRUE, "", getsize(cleaned, out_path), 0, "")
                 /\ fs' = cleaned
                 /\ edit' = [edit EXCEPT !.ok = TRUE]
                 /\ timers' = timers \cup {out_path}
    /\ pc' = "responded"
    /\ UNCHANGED request
    /\ UNCHANGED <<caller, args, i, video_filter, duration_limit, result, msg,
                   attempts, encoder, runs, prev, form, bulk, other, download>>

-----------------------------------------------------------------------------
(* The command line (main) *)

CliInput == SourceFile(300000, Video(4, 2, 5, 50, 1))

CliInputPath == <<"cwd", "anim.gif">>

\* -o and -m of the command lines run: no -o with the default mode, and an
\* explicit output in emoji mode.
CliArgs == {[output_path |-> NonePath, mode |-> "sticker"],
            [output_path |-> <<"cwd", "out.webm">>, mode |-> "emoji"]}

NoPrev == [result |-> "none", selected |-> 0, output |-> Webm.kind, size |-> 0]

\* The level whose artifact a successful call kept; 0 when there is none.
Selected == IF result = "True" /\ attempts # << >>
            THEN attempts[Len(attempts)].crf ELSE 0

\* Lines 243-283: parse the arguments, check for ffmpeg, call the core.  The
\* same command line may be run again once the previous run has ended.
main ==
    /\ caller = "cli"
    /\ pc = "start" \/ (pc = "exited" /\ runs.done < runs.planned)
    /\ \E ffmpeg_ok \in BOOLEAN :
        IF ~ffmpeg_ok
        THEN /\ pc' = "exited"
             /\ response' = Error(1, "Error: FFmpeg not found.")
             /\ UNCHANGED <<args, result, msg, attempts, i>>
        ELSE /\ pc' = "prepare"
             /\ args' = [input_path |-> request.input_path,
                         output_path |-> request.output_path,
                         mode |-> request.mode,
                         max_size_kb |-> request.max_size_kb]
             /\ result' = "none"
             /\ msg' = ""
             /\ attempts' = << >>
             /\ i' = 0
             /\ response' = NoResponse
    /\ UNCHANGED <<download, edit>>
    /\ UNCHANGED <<caller, fs, request, video_filter, duration_limit, encoder,
                   runs, prev, form, bulk, timers, other>>

\* Line 284: sys.exit(0 if success else 1); an exception ends the process too.
main_exit ==
    /\ caller = "cli"
    /\ pc \in {"returned", "raised"}
    /\ pc' = "exited"
    /\ response' = IF pc = "returned" /\ result = "True"
                   THEN NoResponse ELSE Error(1, msg)
    /\ runs' = [runs EXCEPT !.done = runs.done + 1]
    /\ prev' = [result |-> result, selected |-> Selected,
                output |-> IF exists(fs, args.output_path) THEN "file" ELSE "none",
                size |-> IF exists(fs, args.output_path)
                         THEN getsize(fs, args.output_path) ELSE 0]
    /\ UNCHANGED <<download, edit>>
    /\ UNCHANGED <<caller, fs, request, args, i, video_filter, duration_limit,
                   result, msg, attempts, encoder, form, bulk, timers, other>>

-----------------------------------------------------------------------------
(* Specifications *)

\* One request to /api/convert, served with an encoder free to end each run
\* in any way.
Init ==
    /\ caller = "http"
    /\ pc = "start"
    /\ fs = NoFiles
    /\ request = NoRequest
    /\ response = NoResponse
    /\ args = NoArgs
    /\ i = 0
    /\ video_filter = << >>
    /\ duration_limit = 0
    /\ result = "none"
    /\ msg = ""
    /\ attempts = << >>
    /\ encoder = FreeEncoder
    /\ runs = [done |-> 0, planned |-> 0]
    /\ prev = NoPrev
    /\ form = NoForm
    /\ bulk = NoBulk
    /\ timers = {}
    /\ other = NoOther
    /\ download = NoDownload
    /\ edit = NoEdit

Next ==
    \/ convert_gif_receive
    \/ convert_gif_to_webm_plan
    \/ convert_gif_to_webm_try
    \/ convert_gif_to_webm_give_up
    \/ convert_gif_respond

Spec == Init /\ [][Next]_vars

\* The worker thread takes its next step whenever it has one.
FairSpec == Spec /\ WF_vars(Next)


\* The same command line run MaxRuns times, one run after the other, on the
\* same files, with a deterministic encoder.
InitRerun ==
    /\ caller = "cli"
    /\ pc = "start"
    /\ fs = write_file(NoFiles, CliInputPath, CliInput)
    /\ \E a \in CliArgs :
        request = [NoRequest EXCEPT !.input_path = CliInputPath,
                                    !.output_path = a.output_path,
                                    !.mode = a.mode,
                                    !.max_size_kb = DEFAULT_MAX_SIZE_KB]
    /\ response = NoResponse
    /\ args = NoArgs
    /\ i = 0
    /\ video_filter = << >>
    /\ duration_limit = 0
    /\ result = "none"
    /\ msg = ""
    /\ attempts = << >>
    /\ encoder = StubEncoder
    /\ runs = [done |-> 0, planned |-> MaxRuns]
    /\ prev = NoPrev
    /\ form = NoForm
    /\ bulk = NoBulk
    /\ timers = {}
    /\ other = NoOther
    /\ download = NoDownload
    /\ edit = NoEdit

NextRerun ==
    \/ main
    \/ convert_gif_to_webm_plan
    \/ convert_gif_to_webm_try
    \/ convert_gif_to_webm_give_up
    \/ main_exit

SpecRerun == InitRerun /\ [][NextRerun]_vars

\* One request to one of the four conversion endpoints: /api/convert of
\* src/server.py, and /convert/gif-to-webm, /api/convert and /api/convert-bulk
\* of src/artifacts/server.py.  Each encoder run ends with an artifact of
\* exactly the ceiling, an artifact above it, or a non-zero exit status.
EndpointOutcomes ==
    {Outcome("zero", "write", 0), Outcome("zero", "write", Slack),
     Outcome("nonzero", "keep", 0)}

EndpointEncoder ==
    [deterministic |-> FALSE, table |-> [c \in Levels |-> EndpointOutcomes]]

InitEndpoints ==
    /\ caller \in {"http", "preview", "convert", "bulk"}
    /\ pc = "start"
    /\ fs = NoFiles
    /\ request = NoRequest
    /\ response = NoResponse
    /\ args = NoArgs
    /\ i = 0
    /\ video_filter = << >>
    /\ duration_limit = 0
    /\ result = "none"
    /\ msg = ""
    /\ attempts = << >>
    /\ encoder = EndpointEncoder
    /\ runs = [done |-> 0, planned |-> 0]
    /\ prev = NoPrev
    /\ form = NoForm
    /\ bulk = NoBulk
    /\ timers = {}
    /\ other = NoOther
    /\ download = NoDownload
    /\ edit = NoEdit

NextEndpoints ==
    \/ convert_gif_receive
    \/ convert_gif_respond
    \/ convert_gif_to_webm_preview_receive
    \/ convert_gif_to_webm_preview_respond
    \/ preview_cleanup
    \/ api_convert_gif_receive
    \/ api_convert_gif_respond
    \/ convert_bulk_receive
    \/ convert_bulk_file
    \/ convert_bulk_file_done
    \/ convert_bulk_respond
    \/ convert_gif_to_webm_plan
    \/ convert_gif_to_webm_try
    \/ convert_gif_to_webm_give_up

SpecEndpoints == InitEndpoints /\ [][NextEndpoints]_vars

\* Two requests to /api/convert of src/artifacts/server.py served at the same
\* time by two threads, with the clock running: the first in full, the second
\* by what it does to the upload folder.  Each encoder run of the first ends
\* with an artifact of exactly the ceiling or with a non-zero exit status.
ConcurrentOutcomes ==
    {Outcome("zero", "write", 0), Outcome("nonzero", "keep", 0)}

ConcurrentEncoder ==
    [deterministic |-> FALSE, table |-> [c \in Levels |-> ConcurrentOutcomes]]

InitConcurrent ==
    /\ caller = "convert"
    /\ pc = "start"
    /\ fs = NoFiles
    /\ request = NoRequest
    /\ response = NoResponse
    /\ args = NoArgs
    /\ i = 0
    /\ video_filter = << >>
    /\ duration_limit = 0
    /\ result = "none"
    /\ msg = ""
    /\ attempts = << >>
    /\ encoder = ConcurrentEncoder
    /\ runs = [done |-> 0, planned |-> 0]
    /\ prev = NoPrev
    /\ form = NoForm
    /\ bulk = NoBulk
    /\ timers = {}
    /\ other = [pc |-> "start"]
    /\ download = NoDownload
    /\ edit = NoEdit

NextConcurrent ==
    \/ api_convert_gif_receive
    \/ convert_gif_to_webm_plan
    \/ convert_gif_to_webm_try
    \/ convert_gif_to_webm_give_up
    \/ api_convert_gif_respond
    \/ other_convert_gif_receive
    \/ other_convert_gif_encode
    \/ other_convert_gif_respond
    \/ other_download_file
    \/ preview_cleanup
    \/ hour_passes

SpecConcurrent == InitConcurrent /\ [][NextConcurrent]_vars

\* One request to /api/convert of either server, then download requests for
\* the identifier it was given and for one never given out.  A started
\* threading.Timer runs its function once its interval has passed.
InitDownload ==
    /\ caller \in {"http", "convert"}
    /\ pc = "start"
    /\ fs = NoFiles
    /\ request = NoRequest
    /\ response = NoResponse
    /\ args = NoArgs
    /\ i = 0
    /\ video_filter = << >>
    /\ duration_limit = 0
    /\ result = "none"
    /\ msg = ""
    /\ attempts = << >>
    /\ encoder = ConcurrentEncoder
    /\ runs = [done |-> 0, planned |-> 0]
    /\ prev = NoPrev
    /\ form = NoForm
    /\ bulk = NoBulk
    /\ timers = {}
    /\ other = NoOther
    /\ download = NoDownload
    /\ edit = NoEdit

NextDownload ==
    \/ convert_gif_receive
    \/ api_convert_gif_receive
    \/ convert_gif_to_webm_plan
    \/ convert_gif_to_webm_try
    \/ convert_gif_to_webm_give_up
    \/ convert_gif_respond
    \/ api_convert_gif_respond
    \/ download_file
    \/ api_download_file
    \/ download_file_send
    \/ remove_file_after_send

SpecDownload ==
    InitDownload /\ [][NextDownload]_vars /\ WF_vars(remove_file_after_send)

\* One request to one of the trim and icon endpoints.
InitEdit ==
    /\ caller \in {"trim_blob", "trim_json", "icon"}
    /\ pc = "start"
    /\ fs = NoFiles
    /\ request = NoRequest
    /\ response = NoResponse
    /\ args = NoArgs
    /\ i = 0
    /\ video_filter = << >>
    /\ duration_limit = 0
    /\ result = "none"
    /\ msg = ""
    /\ attempts = << >>
    /\ encoder = ConcurrentEncoder
    /\ runs = [done |-> 0, planned |-> 0]
    /\ prev = NoPrev
    /\ form = NoForm
    /\ bulk = NoBulk
    /\ timers = {}
    /\ other = NoOther
    /\ download = NoDownload
    /\ edit = NoEdit

NextEdit ==
    \/ edit_trim_gif_blob_stage
    \/ edit_trim_gif_blob_run
    \/ edit_trim_gif_blob_respond
    \/ trim_gif_json_stage
    \/ trim_gif_json_respond
    \/ convert_image_to_icon_stage
    \/ convert_image_to_icon_respond
    \/ preview_cleanup

SpecEdit == InitEdit /\ [][NextEdit]_vars

\* The planner applied to every probe result within the bounds.
Durations == 0..(STICKER_SECONDS + 1)

FrameRates == {<<25, 1>>, <<30, 1>>, <<50, 1>>, <<30000, 1001>>, <<0, 0>>}

PlanMedia ==
    {Video(w, h, d, r[1], r[2]) :
        w \in 0..MaxDim, h \in 0..MaxDim, d \in Durations, r \in FrameRates}

InitPlan ==
    /\ caller = "cli"
    /\ pc = "prepare"
    /\ \E media \in PlanMedia :
        fs = write_file(NoFiles, CliInputPath, SourceFile(300000, media))
    /\ \E mode \in {"sticker", "emoji", "preview"} :
        args = [input_path |-> CliInputPath, output_path |-> NonePath,
                mode |-> mode, max_size_kb |-> DEFAULT_MAX_SIZE_KB]
    /\ request = NoRequest
    /\ response = NoResponse
    /\ i = 0
    /\ video_filter = << >>
    /\ duration_limit = 0
    /\ result = "none"
    /\ msg = ""
    /\ attempts = << >>
    /\ encoder = StubEncoder
    /\ runs = [done |-> 0, planned |-> 1]
    /\ prev = NoPrev
    /\ form = NoForm
    /\ bulk = NoBulk
    /\ timers = {}
    /\ other = NoOther
    /\ download = NoDownload
    /\ edit = NoEdit

NextPlan == convert_gif_to_webm_plan

SpecPlan == InitPlan /\ [][NextPlan]_vars

-----------------------------------------------------------------------------
(* Properties *)

Last(s) == s[Len(s)]

\* The size ceiling of the running call, in bytes, as the caller asked for it.
Ceiling == args.max_size_kb * 1024

Succeeded == pc = "returned" /\ result = "True"

Failed == pc = "returned" /\ result = "False"

\* C1: when the search succeeds, the output kept is the one written by the
\* first level, in the order 35,40,45,50,55,60,63, whose encoder run exited
\* zero with a file of at most max_size_kb*1024 bytes.  A file of exactly the
\* ceiling fits, and no level after a fitting one is ever tried: a fitting run
\* is always the last of the history and ends the search.
C1_FirstFit ==
    /\ \A k \in 1..Len(attempts) :
          attempts[k].class = "fit" =>
              /\ k = Len(attempts)
              /\ pc \in {"returned", "responded", "blocked"}
              /\ pc = "returned" => result = "True"
    /\ Succeeded =>
          /\ attempts # << >>
          /\ Last(attempts).class = "fit"
          /\ Last(attempts).crf = <<35, 40, 45, 50, 55, 60, 63>>[Len(attempts)]
          /\ exists(fs, args.output_path)
          /\ fs[args.output_path].by = Last(attempts).crf

\* The search succeeded at the second level with a file of exactly the
\* ceiling, after an oversized first level.
C1_Witness ==
    /\ Succeeded
    /\ Len(attempts) = 2
    /\ attempts[1].class = "big"
    /\ fs[args.output_path].size = Ceiling

\* C2: when every one of the seven levels produced an artifact larger than
\* the ceiling, the search returns False with the could-not-meet-the-limit
\* message; and that outcome is only ever reported after seven attempts.
C2_AllOversized ==
    /\ (pc = "returned" /\ Len(attempts) = 7
            /\ \A k \in 1..7 : attempts[k].class = "big")
          => (result = "False" /\ msg = LimitMsg)
    /\ (pc = "returned" /\ msg = LimitMsg)
          => (result = "False" /\ Len(attempts) = 7)
    /\ (attempts # << >> /\ Len(attempts) < 7
            /\ \A k \in 1..Len(attempts) : attempts[k].class = "big")
          => pc \in {"loop", "blocked"}

C2_Witness ==
    /\ Failed
    /\ msg = LimitMsg
    /\ Len(attempts) = 7
    /\ \A k \in 1..7 : attempts[k].class = "big"

\* C3: the encoder runs of one call happen in the order 35,40,45,50,55,60,63:
\* the k-th run is at the k-th level (so no level runs twice and none runs
\* before the levels ahead of it), and no run follows a successful level.
C3_ConfiguredOrder ==
    /\ Len(attempts) <= 7
    /\ \A k \in 1..Len(attempts) :
          /\ attempts[k].crf = <<35, 40, 45, 50, 55, 60, 63>>[k]
          /\ k < Len(attempts) => attempts[k].class # "fit"

C3_Witness ==
    /\ Len(attempts) = 7
    /\ Last(attempts).crf = 63
    /\ Last(attempts).class = "fit"

\* C4: an encoder run that fails at one level (non-zero exit, exception) does
\* not end the search: the step that records it leaves the search in its loop
\* at the next level; and a fitting level after a failed one ends the search
\* with success (unless the probe of the output never returns).
C4_ErrorAdvances ==
    [][ Len(attempts') = Len(attempts) + 1 =>
          /\ attempts'[Len(attempts')].class = "fail" =>
                (pc' = "loop" /\ i' = i + 1 /\ result' = result)
          /\ (attempts'[Len(attempts')].class = "fit" 
                /\ \E k \in 1..Len(attempts) : attempts[k].class = "fail") =>
                (pc' = "blocked" \/ (pc' = "returned" /\ result' = "True")) ]_vars

C4_Witness ==
    /\ Succeeded
    /\ Len(attempts) >= 3
    /\ attempts[1].class = "fail"
    /\ attempts[2].class = "fail"

\* C5: after the search has returned False, no artifact of any attempted
\* level is left in scratch storage.
C5_FailedLeavesNoArtifact == Failed => Artifacts(fs) = {}

\* C6: after the search has returned True, exactly one artifact exists in
\* scratch storage: the file at the output path, written by the level the
\* search selected, of a size within the ceiling.
C6_OneArtifact ==
    Succeeded =>
        /\ Artifacts(fs) = {args.output_path}
        /\ Cardinality(Artifacts(fs)) = 1
        /\ fs[args.output_path].by = LevelAt(i)
        /\ fs[args.output_path].size <= Ceiling

\* The search succeeded at the third level after two oversized artifacts.
C6_Witness ==
    /\ Succeeded
    /\ Len(attempts) = 3
    /\ attempts[1].class = "big"
    /\ attempts[2].class = "big"

\* C7: every call of the search ends: having started, it eventually returns
\* (or raises).
C7_SearchTerminates == (pc = "prepare") ~> (pc \in {"returned", "raised"})

\* C8: with a deterministic encoder, a run of the same command line after an
\* earlier one returns what the earlier one returned, selects the same level
\* and leaves the same output.
C8_Idempotent ==
    (pc = "returned" /\ runs.done >= 1) =>
        /\ result = prev.result
        /\ Selected = prev.selected
        /\ prev.output = (IF exists(fs, args.output_path) THEN "file" ELSE "none")
        /\ prev.size = (IF exists(fs, args.output_path)
                        THEN getsize(fs, args.output_path) ELSE 0)

\* The second run succeeded at a level after the first one, having found the
\* first run's output in place when it started.
C8_Witness ==
    /\ Succeeded
    /\ runs.done = 1
    /\ prev.result = "True"
    /\ Len(attempts) >= 2
    /\ attempts[1].class = "fail"

\* C9: a request whose upload has size zero and whose conversion succeeded is
\* answered with the normal success response.
C9_ZeroSizeRatio ==
    (pc = "responded" /\ result = "True" /\ request.original_size = 0)
        => (response.status = 200 /\ response.success)

\* C10: for a source of positive width and height, the sticker plan gives an
\* output whose larger side is 512 and whose smaller side is even and at most
\* 512: the width is 512 when width >= height, else the height is, and the
\* other side is within one pixel of the proportional value.
SourceInfo == fs[args.input_path].media

Abs(x) == IF x < 0 THEN 0 - x ELSE x

C10_StickerDimensions ==
    (pc = "loop" /\ args.mode = "sticker"
        /\ SourceInfo.width > 0 /\ SourceInfo.height > 0) =>
        LET w == SourceInfo.width
            h == SourceInfo.height
            out == ScaledSize(video_filter[1], w, h)
            larger == IF out.width >= out.height THEN out.width ELSE out.height
            smaller == IF out.width >= out.height THEN out.height ELSE out.width
        IN  /\ larger = 512
            /\ smaller <= 512
            /\ smaller % 2 = 0
            /\ w >= h => (out.width = 512 /\ Abs(out.height * w - 512 * h) <= w)
            /\ w < h => (out.height = 512 /\ Abs(out.width * h - 512 * w) <= h)

\* A source taller than wide, whose proportional width is not an even number.
C10_Witness ==
    /\ pc = "loop"
    /\ args.mode = "sticker"
    /\ SourceInfo.width = 1
    /\ SourceInfo.height = 3
    /\ video_filter[1] = "scale=-2:512"
    /\ ScaledSize(video_filter[1], 1, 3).width = 170

\* C11: for a source of positive width and height, the emoji plan is the
\* fit-and-pad filter, whatever the aspect ratio: the output canvas is exactly
\* 100x100, the image is fitted inside it with its aspect ratio kept (one side
\* 100, the other proportional to within a pixel) and sits centred in it.
C11_EmojiCanvas ==
    (pc = "loop" /\ args.mode = "emoji"
        /\ SourceInfo.width > 0 /\ SourceInfo.height > 0) =>
        LET w == SourceInfo.width
            h == SourceInfo.height
            fit == EmojiFit(video_filter[1], w, h)
        IN  /\ video_filter[1] = EmojiFilter
            /\ ScaledSize(video_filter[1], w, h) = [width |-> 100, height |-> 100]
            /\ fit.ow = 100 /\ fit.oh = 100
            /\ fit.iw <= 100 /\ fit.ih <= 100
            /\ fit.iw = 100 \/ fit.ih = 100
            /\ Abs(fit.iw * h - fit.ih * w) <= (IF w >= h THEN w ELSE h)
            /\ 2 * fit.x <= 100 - fit.iw /\ 100 - fit.iw <= 2 * fit.x + 1
            /\ 2 * fit.y <= 100 - fit.ih /\ 100 - fit.ih <= 2 * fit.y + 1

\* An emoji plan for a source much taller than wide.
C11_Witness ==
    /\ pc = "loop"
    /\ args.mode = "emoji"
    /\ SourceInfo.width = 2
    /\ SourceInfo.height = 5
    /\ EmojiFit(video_filter[1], 2, 5).iw = 40
    /\ EmojiFit(video_filter[1], 2, 5).x = 30

\* C12: the -t value of every encoder run is min(source duration, 3) in
\* sticker and emoji modes and the source duration itself in preview mode.
C12_DurationCap ==
    (pc \in {"loop", "returned"} /\ exists(fs, args.input_path)) =>
        LET d == SourceInfo.duration
            cap == IF args.mode = "preview" THEN d
                   ELSE IF d <= 3 THEN d ELSE 3
        IN  /\ \A k \in 1..Len(attempts) : attempts[k].t = cap
            /\ pc = "loop" => duration_limit = cap

\* Two encoder runs of a preview conversion of a five-second source.
C12_Witness ==
    /\ pc = "loop"
    /\ args.mode = "preview"
    /\ SourceInfo.duration = 5
    /\ Len(attempts) = 2
    /\ attempts[2].t = 5

\* C14: a sticker or emoji request to /api/convert (either server) or to
\* /api/convert-bulk whose max_size is below 64 or above 2048 is answered 400
\* 'Invalid max_size', with no file staged and no encoder run; a request that
\* reaches the core in these modes has a max_size within [64, 2048], which is
\* the ceiling of the search, unchanged.
C14_CeilingRange ==
    LET sized == /\ caller \in {"http", "convert", "bulk"}
                 /\ pc # "start"
                 /\ form.parsed /\ form.numeric
                 /\ form.mode \in {"sticker", "emoji"}
        inside == 64 <= form.max_size /\ form.max_size <= 2048
        invalid == Error(400, "Invalid max_size. Must be between 64 and 2048 KB")
    IN  /\ (sized /\ ~inside) =>
              /\ pc = "responded"
              /\ response = invalid
              /\ args = NoArgs
              /\ attempts = << >>
              /\ DOMAIN fs = {}
        /\ (sized /\ inside) => response # invalid
        /\ (sized /\ args # NoArgs) =>
              /\ inside
              /\ args.max_size_kb = form.max_size
              /\ Ceiling = form.max_size * 1024

\* A bulk request at the lower end of the range whose file is being encoded
\* under a ceiling of 64 KB.
C14_Witness ==
    /\ caller = "bulk"
    /\ form.mode = "emoji"
    /\ form.max_size = 64
    /\ args.max_size_kb = 64
    /\ Len(attempts) = 1
    /\ fs[args.output_path].size = 64 * 1024 + Slack

\* C15: every call of the core in preview mode, from whichever endpoint, has
\* the fixed ceiling of 2048 KB, whatever max_size the client sent.
C15_PreviewCeiling ==
    (args # NoArgs /\ args.mode = "preview") =>
        /\ args.max_size_kb = 2048
        /\ \A k \in 1..Len(attempts) :
              attempts[k].class = "fit" => fs[args.output_path].size <= 2048 * 1024

\* C13: the plan holds the rate-limiting step fps=30 exactly when the source
\* frame rate is strictly greater than 30 Hz; a source at exactly 30 Hz, or
\* below, gets the scale filter alone.
C13_FpsCap ==
    pc = "loop" =>
        LET limited == \E k \in 1..Len(video_filter) : video_filter[k] = "fps=30"
        IN  /\ limited <=> SourceInfo.fps_num > 30 * SourceInfo.fps_den
            /\ Len(video_filter) = (IF limited THEN 2 ELSE 1)
            /\ (SourceInfo.fps_num = 30 /\ SourceInfo.fps_den = 1) => ~limited

\* A plan for a source at exactly 30 Hz.
C13_Witness ==
    /\ pc = "loop"
    /\ SourceInfo.fps_num = 30
    /\ SourceInfo.fps_den = 1
    /\ Len(video_filter) = 1

\* What convert_gif_to_webm returns when the probe gives nothing (line 85).
ProbeFailureReturn == "False"

\* What /api/convert answers on its fail path (src/server.py, lines 213-216).
ConversionFailed ==
    Error(400, "Conversion failed. Could not create file under limit.")

\* C16: a source that probes well but has no video stream is reported
\* differently from a probe failure: the core's return value differs from the
\* one it gives for an unreadable file, and so does the handler's answer.
C16_NoVideoStreamDistinct ==
    /\ (pc = "returned" /\ exists(fs, args.input_path)
            /\ SourceInfo.kind = "unreadable") => result = ProbeFailureReturn
    /\ (pc = "returned" /\ exists(fs, args.input_path)
            /\ SourceInfo.kind = "novideo") => result # ProbeFailureReturn
    /\ (pc = "responded" /\ msg = NoInfoMsg) => response = ConversionFailed
    /\ (pc = "responded" /\ msg = NoStreamMsg) => response # ConversionFailed

AllAttempts(class) ==
    /\ Len(attempts) = 7
    /\ \A k \in 1..7 : attempts[k].class = class

\* C17: the failure reported when all seven levels produced an oversized
\* artifact differs from the one reported when the tool failed (the probe gave
\* nothing, or the encoder failed at every level): in what the core returns
\* and prints, and in the handler's answer.
C17_CeilingFailureDistinct ==
    /\ (pc = "returned" /\ AllAttempts("big")) =>
            (result = "False" /\ msg = LimitMsg)
    /\ (pc = "returned" /\ AllAttempts("fail")) =>
            ~(result = "False" /\ msg = LimitMsg)
    /\ (pc = "responded" /\ AllAttempts("big")) => response = ConversionFailed
    /\ (pc = "responded" /\ (AllAttempts("fail") \/ msg = NoInfoMsg)) =>
            response # ConversionFailed

\* The names of the exceptions whose text the handler's except clause puts
\* into the answer.
ExceptionTexts == {ZeroDivisionError, "TypeError", "ValueError", "OSError"}

\* C18: no call of the core ends by raising, whatever the probe reported,
\* and the answer to the request whose call it was never carries the text of
\* an exception.
C18_NoRawException ==
    /\ pc # "raised"
    /\ (pc = "responded" /\ msg \in ExceptionTexts) =>
            response.error \notin ExceptionTexts

\* C20: handling a conversion request runs no availability check of the
\* encoder.
C20_NoPerRequestCheck == ~form.checked

\* The first request has been accepted and not yet answered.
InFlight ==
    /\ request # NoRequest
    /\ pc \in {"prepare", "loop", "returned", "raised", "blocked"}

\* A step taken on behalf of the second request: by its handler, or by the
\* timer its download started.
OtherRequestStep ==
    \/ other_convert_gif_receive
    \/ other_convert_gif_encode
    \/ other_convert_gif_respond
    \/ other_download_file
    \/ preview_cleanup

\* C19: while a request is in flight, no step taken on behalf of another
\* request creates, overwrites or deletes its input file or its output file.
C19_RequestsIndependent ==
    [][ (InFlight /\ OtherRequestStep) =>
          \A p \in {request.input_path, request.output_path} :
              /\ exists(fs', p) <=> exists(fs, p)
              /\ exists(fs, p) => fs'[p] = fs[p] ]_vars

\* C21: for every probe result with width >= 0, height >= 0, duration >= 0
\* and a frame rate > 0, and every mode, planning completes: the call never
\* ends in an exception raised while the plan is computed.
C21_PlannerTotal ==
    (exists(fs, args.input_path)
        /\ SourceInfo.kind = "video"
        /\ SourceInfo.width >= 0 /\ SourceInfo.height >= 0
        /\ SourceInfo.duration >= 0
        /\ SourceInfo.fps_num > 0 /\ SourceInfo.fps_den > 0
        /\ args.mode \in {"sticker", "emoji", "preview"})
    => (pc # "raised" /\ msg # ZeroDivisionError)

\* C22: for every sticker or preview plan of a source of positive width and
\* height, at least one of the output width and height equals 512 and neither
\* exceeds 512; a square source gives 512 on both sides.
C22_OneSide512 ==
    (pc = "loop" /\ args.mode \in {"sticker", "preview"}
        /\ SourceInfo.width > 0 /\ SourceInfo.height > 0) =>
        LET out == ScaledSize(video_filter[1], SourceInfo.width, SourceInfo.height)
        IN  /\ out.width = STICKER_SIDE \/ out.height = STICKER_SIDE
            /\ out.width <= STICKER_SIDE /\ out.height <= STICKER_SIDE
            /\ SourceInfo.width = SourceInfo.height =>
                   (out.width = STICKER_SIDE /\ out.height = STICKER_SIDE)

\* A preview plan for a square source.
C22_Witness ==
    /\ pc = "loop"
    /\ args.mode = "preview"
    /\ SourceInfo.width = 3
    /\ SourceInfo.height = 3
    /\ ScaledSize(video_filter[1], 3, 3) = [width |-> 512, height |-> 512]

\* C22 as stated: exactly one of the output width and height equals 512.
C22_ExactlyOneSide512 ==
    (pc = "loop" /\ args.mode \in {"sticker", "preview"}
        /\ SourceInfo.width > 0 /\ SourceInfo.height > 0) =>
        LET out == ScaledSize(video_filter[1], SourceInfo.width, SourceInfo.height)
        IN  /\ (out.width = STICKER_SIDE) # (out.height = STICKER_SIDE)
            /\ out.width <= STICKER_SIDE /\ out.height <= STICKER_SIDE

\* C23: once /api/convert has staged its upload and produced its response,
\* whichever it is, the staged input file no longer exists.
C23_InputRemoved ==
    (caller \in {"http", "convert"} /\ pc = "responded" /\ request # NoRequest)
        => ~exists(fs, request.input_path)

\* C24: within one request of the trim and icon endpoints the staged input
\* path differs from the output path and from each temp path, whatever the
\* accepted upload filename, so that the encoder can write the output next to
\* the input and removing the input does not remove the output.
C24_PathsDistinct ==
    (caller \in {"trim_blob", "trim_json", "icon"} /\ request # NoRequest) =>
        /\ request.input_path # request.output_path
        /\ request.input_path \notin {edit.temp, edit.temp_reversed}

\* C25: whenever /api/convert answers with success true, the artifact named
\* by download_id exists and output_size_bytes is at most max_size_kb * 1024
\* for the max_size_kb the same response reports, in every accepted mode.
C25_SuccessWithinReportedCeiling ==
    (caller \in {"http", "convert"} /\ pc = "responded" /\ response.success) =>
        /\ exists(fs, <<response.download_id, "output.webm">>)
        /\ response.output_size_bytes
               = getsize(fs, <<response.download_id, "output.webm">>)
        /\ response.output_size_bytes <= response.max_size_kb * 1024

\* C26: in every /api/convert-bulk response that carries totals, successful
\* plus failed equals the number of entries in results and equals total.
C26_BulkTotals ==
    (caller = "bulk" /\ pc = "responded" /\ response.success) =>
        /\ bulk.successful + bulk.failed = Len(bulk.results)
        /\ bulk.successful + bulk.failed = bulk.total

\* C28: a request that fails validation (converter or encoder unavailable, no
\* file, an empty or non-GIF filename, an upload that is too large, max_size
\* out of range, an unknown mode) is answered with an error, leaves no file
\* of its own in the upload folder and invokes neither the probe nor the
\* encoder.
InvalidRequest ==
    \/ ~form.has_converter
    \/ ~form.ffmpeg_ok
    \/ ~form.has_file
    \/ form.filename \notin {"anim.gif", "ANIM.GIF", "../anim.gif"}
    \/ form.content_length > 100 * 1024 * 1024
    \/ /\ caller \in {"http", "convert"}
       /\ form.numeric
       /\ form.max_size < 64 \/ form.max_size > 2048
    \/ caller = "http" /\ form.mode \notin {"sticker", "emoji"}
    \/ caller = "convert" /\ form.mode \notin {"sticker", "emoji", "preview"}

C28_RejectionHasNoEffect ==
    (caller \in {"http", "convert", "preview"} /\ pc # "start" /\ InvalidRequest) =>
        /\ pc = "responded"
        /\ ~response.success
        /\ response.status \in {400, 500}
        /\ \A path \in DOMAIN fs : path[1] # FileId
        /\ ~form.probed
        /\ attempts = << >>
        /\ request = NoRequest /\ args = NoArgs

\* A request refused for its mode alone, with everything before it in order.
C28_Witness ==
    /\ caller = "convert"
    /\ pc = "responded"
    /\ form.has_converter /\ form.ffmpeg_ok /\ form.has_file
    /\ form.filename = "anim.gif"
    /\ form.content_length = 4096
    /\ form.numeric /\ form.max_size = 64
    /\ form.mode = "banner"
    /\ response.status = 400
    /\ fs = NoFiles
    /\ ~form.probed

\* C27: an artifact served by /api/download/<id> is eventually deleted by the
\* timer started when it was served; a download request that arrives when the
\* identifier has no file (never had one, or it has been deleted) is answered
\* 404 'File not found or expired' and returns no file; and a deleted artifact
\* does not come back.
DownloadArrives == download'.n = download.n + 1

HasNoArtifact(file_id) ==
    /\ ~exists(fs, <<file_id, "output.webm">>)
    /\ ~exists(fs, <<file_id, "trimmed.gif">>)

C27_DownloadLifecycle ==
    /\ \A file_id \in {FileId, StrangerId} :
          (download.status = 200 /\ download.file_id = file_id)
              ~> HasNoArtifact(file_id)
    /\ [][(DownloadArrives /\ HasNoArtifact(download'.file_id)) =>
              download' = [n |-> download.n + 1, pc |-> "answered",
                           file_id |-> download'.file_id, file_path |-> NonePath,
                           status |-> 404, error |-> "File not found or expired"]]_vars
    /\ [][(pc = "responded" /\ HasNoArtifact(FileId)) => HasNoArtifact(FileId)']_vars
    /\ [](download.status = 200 => download.file_id = response.download_id)

\* The artifact has been served, its timer has run, and a later request for
\* the same identifier has been answered 404.
C27_Witness ==
    /\ response.success
    /\ download.n = 2
    /\ download.file_id = response.download_id
    /\ download.status = 404
    /\ download.error = "File not found or expired"
    /\ ~exists(fs, request.output_path)
    /\ timers = {}

=============================================================================
